---- MODULE Spec2Model ----
(***************************************************************************)
(* Ownership transfer of go-ocf/sdk.                                       *)
(*                                                                         *)
(*   Spec   Client.OwnDevice (local/ownDevice.go) run once against one     *)
(*          device; the device and the collaborators (discovery, signer,   *)
(*          transport) answer every call nondeterministically.             *)
(*   SpecD  Client.ownDeviceFindClient with its deviceOwnershipHandler     *)
(*          over resource.Discover (local/resource/discover.go): the       *)
(*          calling goroutine, one goroutine per connection, the responses *)
(*          the connections deliver and the caller's context.              *)
(*   SpecC  Client.OwnDevice and ownDeviceWithSigners over the device      *)
(*          cache, run by concurrent calls on one physical device.         *)
(*   SpecO  Device.observeResource and Device.StopObservingResource        *)
(*          (local/client.go) with the connection's close handlers.        *)
(*   SpecS  Device.stopObservations (local/client.go) with                 *)
(*          observeResource and the connection's close handlers.           *)
(*   SpecH  handleResponse of DiscoverDevices                              *)
(*          (local/core/discoverDevices.go) applied to one response.       *)
(*   SpecT  DialTcpTls (local/coapClient.go) and the peer certificate      *)
(*          verification of its TLS configuration.                         *)
(*   SpecM  Reboot, FactoryReset and updateMaintenanceResource             *)
(*          (backend/maintenance.go).                                      *)
(***************************************************************************)
EXTENDS Integers, Sequences, FiniteSets, TLC

VARIABLES
    pc,             \* position of the OwnDevice call
    result,         \* what OwnDevice returned (kind "none" while it runs)
    log,            \* the calls OwnDevice has made so far, with their outcome
    doxm,           \* device: Ownership Document
    pstat,          \* device: Provisioning Status Document
    creds,          \* device: credential set
    acl,            \* device: access control list
    ownership,      \* client.GetOwnership(): the discovered Ownership Document
    links,          \* what deviceClient.GetResourceLinks() holds
    tlsOpen,        \* the session otmClient.Dial returned is open
    udpOpen,        \* the discovery client is open
    CAs,            \* otmc.CAs
    csr,            \* ProvisionOwnerCredentials: csr
    der,            \* ProvisionOwnerCredentials: der
    signedCsr,      \* ProvisionOwnerCredentials: signedCsr
    delQueue,       \* ProvisionOwnerCredentials: credentials the delete loop has still to visit
    caIdx,          \* ProvisionOwnerCredentials: CA certificates written so far
    contentFormat,  \* the content format the implementation probe saw
    verifyOwner,    \* verifyOwner.DeviceOwner
    conn,           \* Discover: number of multicast connections it was given
    dpc,            \* Discover: position of the calling goroutine
    spawned,        \* Discover: connections runDiscovery was called for
    gpc,            \* runDiscovery: position of each connection's goroutine
    wg,             \* Discover: the WaitGroup's counter
    cancelled,      \* Discover: its own cancel() was called
    derr,           \* Discover: what it returns
    ctxOwnDone,     \* ownDeviceFindClient: ctxOwn is cancelled
    callerDone,     \* the caller's context is cancelled or timed out
    qfailed,        \* runDiscovery: connections whose NewGetRequest or PublishMsgWithContext returned an error
    responses,      \* the responses delivered to the handler so far
    hClient,        \* deviceOwnershipHandler.client (0: nil, else the response it was made from)
    hErr,           \* deviceOwnershipHandler.err (0: nil, else the response it was made from)
    clientSets,     \* how often deviceOwnershipHandler.client was assigned
    fpc,            \* ownDeviceFindClient: position
    fres,           \* ownDeviceFindClient: what it returns
    cpc,            \* Client.OwnDevice (device cache): position of each call
    tid,            \* Client.OwnDevice: the deviceID each call was given
    d1,             \* Client.OwnDevice: d of each call (0: none)
    d2,             \* ownDeviceWithSigners: d of each call (0: none)
    tmp,            \* ownDeviceWithSigners: tmp of each call (0: none)
    stored,         \* ownDeviceWithSigners: stored of each call
    cres,           \* Client.OwnDevice: what each call returns
    cache,          \* deviceCache: the handle stored under each identifier (0: none)
    refs,           \* the reference count of each handle
    hopen,          \* the connection of each handle is open
    hid,            \* DeviceID() of each handle
    nh,             \* handles created so far
    cacheHeld,      \* handles the cache holds a reference on
    devId,          \* the identifier the physical device answers to
    secured,        \* the device has a secure endpoint
    dstate,         \* the device's operational state
    marked,         \* calls whose owned = true write the device accepted
    opc,            \* observeResource: position
    oid,            \* observeResource: o.id of the observation being made (0: none)
    ores,           \* observeResource: what the last call returned
    issued,         \* observation ids generated so far
    observations,   \* d.observations: the ids stored
    active,         \* ids whose gocoap observation delivers notifications
    closeHandlers,  \* ids whose close handler is registered on the client
    connected,      \* the client's connection is open
    closing,        \* close handlers the closed connection has still to call
    spc,            \* StopObservingResource: position of each call
    sid,            \* StopObservingResource: observationID of each call
    sres,           \* StopObservingResource: what each call returned
    sknown,         \* each call found its id registered when it was made
    stoppedOk,      \* ids for which a StopObservingResource call returned nil
    handled,        \* ids whose handler got an event
    late,           \* ids whose handler got an event after a stop of theirs returned nil
    ofailed,        \* observeResource: ids whose client.Observe returned an error
    apc,            \* stopObservations: position
    aobs,           \* stopObservations: obs, the ids it has still to stop
    acur,           \* stopObservations: the id whose StopObservingResource call runs (0: none)
    aerrs,          \* stopObservations: len(errors)
    atCall,         \* d.observations when stopObservations was called
    ares,           \* stopObservations: what it returned
    hresp,          \* handleResponse: the discovery response it was called with
    hcalls,         \* handleResponse: the callbacks the device handler got for it
    tpc,            \* DialTcpTls: position
    tchain,         \* DialTcpTls: rawCerts, the certificates the peer presented
    tcalled,        \* DialTcpTls: what verifyPeerCertificate returned, per call
    tverify,        \* DialTcpTls: what tlsConfig.VerifyPeerCertificate returned
    tres,           \* DialTcpTls: what it returned
    mpc,            \* updateMaintenanceResource: position
    mreq,           \* updateMaintenanceResource: req, set by Reboot or FactoryReset
    mlinks,         \* updateMaintenanceResource: the links it.Next has still to yield
    mitErr,         \* updateMaintenanceResource: it.Err once it.Next returned false
    msent,          \* updateMaintenanceResource: hrefs UpdateResource was called with
    mresp,          \* updateMaintenanceResource: resp.LastHTTPError (-1: no response)
    mres            \* updateMaintenanceResource: what it returned

ownVars  == <<pc, result, log, ownership, links, tlsOpen, udpOpen, CAs>>
provVars == <<csr, der, signedCsr, delQueue, caIdx, contentFormat, verifyOwner>>
devVars  == <<doxm, pstat, creds, acl>>
discVars == <<conn, dpc, spawned, gpc, wg, cancelled, derr, ctxOwnDone, callerDone, qfailed,
              responses, hClient, hErr, clientSets, fpc, fres>>
cacheVars == <<cpc, tid, d1, d2, tmp, stored, cres, cache, refs, hopen, hid, nh, cacheHeld,
               devId, secured, dstate, marked>>
obsVars  == <<opc, oid, ores, issued, observations, active, closeHandlers, connected, closing,
              spc, sid, sres, sknown, stoppedOk, handled, late, ofailed,
              apc, aobs, acur, aerrs, atCall, ares>>
respVars   == <<hresp, hcalls>>
dialVars   == <<tpc, tchain, tcalled, tverify, tres>>
maintVars  == <<mpc, mreq, mlinks, mitErr, msent, mresp, mres>>
auxVars  == <<respVars, dialVars, maintVars>>
vars     == <<ownVars, provVars, devVars, discVars, cacheVars, obsVars, auxVars>>

(***************************************************************************)
(* Bounds.                                                                 *)
(***************************************************************************)
MaxCAs == 2
MaxConn == 2
MaxResponses == 2

(***************************************************************************)
(* Identities and enumerations.                                            *)
(***************************************************************************)
sdkID    == "sdkID"
deviceID == "deviceID"
otherID  == "otherID"
hackId   == "52a201a7-824c-4fc6-9092-d2b6a3414a5b"

ManufacturerCertificate == "ManufacturerCertificate"
JustWorks               == "JustWorks"

\* ManufacturerOTMClient.Type
Type == ManufacturerCertificate

OperationalStates == {"RFOTM", "RFPRO", "RFNOP"}

ASYMMETRIC_SIGNING_WITH_CERTIFICATE == "ASYMMETRIC_SIGNING_WITH_CERTIFICATE"
SYMMETRIC_PAIR_WISE                 == "SYMMETRIC_PAIR_WISE"
CredentialUsage_CERT                == "CERT"
CredentialUsage_TRUST_CA            == "TRUST_CA"

AppCBOR    == "AppCBOR"
AppOcfCbor == "AppOcfCbor"
AppJSON    == "AppJSON"
NoFormat   == "none"

\* otmc.CAs can hold ca[1], ca[2], ...
caRaw(k) == <<"ca", k>>

(***************************************************************************)
(* What OwnDevice returns.                                                 *)
(***************************************************************************)
Running == [kind |-> "none", owner |-> "", otm |-> "", supported |-> {}, state |-> ""]
Nil     == [kind |-> "nil", owner |-> "", otm |-> "", supported |-> {}, state |-> ""]
Err(k)  == [kind |-> k, owner |-> "", otm |-> "", supported |-> {}, state |-> ""]

ErrUnsupported(otm, supported) == [Err("unsupported") EXCEPT !.otm = otm, !.supported = supported]
ErrAlreadyOwned(owner)         == [Err("alreadyOwned") EXCEPT !.owner = owner]
ErrPending(state)              == [Err("pending") EXCEPT !.state = state]
ErrNotRFOTM(state)             == [Err("notRFOTM") EXCEPT !.state = state]

IsError(r) == r.kind \notin {"none", "nil"}

(***************************************************************************)
(* Payloads OwnDevice writes.                                              *)
(***************************************************************************)
AllPermissions == {"create", "retrieve", "update", "delete", "notify"}
AllResources   == "*"

\* a variant that grants the owner read access only
setOwnerAclRetrieve(owner) == [subject |-> owner, permission |-> {"retrieve"}, resources |-> AllResources]

\* setOwnerAcl
setOwnerAcl(owner) == [subject |-> owner, permission |-> AllPermissions, resources |-> AllResources]

\* setDeviceOwned
setDeviceOwned(owner, dev) == [ResourceOwner |-> owner, DeviceId |-> dev, Owned |-> TRUE]

\* setIdentityDeviceCredential
setIdentityDeviceCredential(dev, cert) ==
    [subject |-> dev, type |-> ASYMMETRIC_SIGNING_WITH_CERTIFICATE,
     usage |-> CredentialUsage_CERT, data |-> cert]
\* a variant that files the trust anchor under the device's identifier
setCaCredentialDeviceSubject(owner, raw) ==
    [subject |-> deviceID, type |-> ASYMMETRIC_SIGNING_WITH_CERTIFICATE,
     usage |-> CredentialUsage_TRUST_CA, data |-> raw]

\* setCaCredential
setCaCredential(owner, raw) ==
    [subject |-> owner, type |-> ASYMMETRIC_SIGNING_WITH_CERTIFICATE,
     usage |-> CredentialUsage_TRUST_CA, data |-> raw]

\* iotivityHackCredential
iotivityHackCredential ==
    [subject |-> hackId, type |-> SYMMETRIC_PAIR_WISE, usage |-> "", data |-> <<"IOTIVITY HACK">>]

(***************************************************************************)
(* Pure helpers of the client.                                             *)
(***************************************************************************)
\* a variant that accepts any device that lists a method
supportOtmAny(supported, t) == supported # {}

\* the supportOtm loop of OwnDevice
supportOtm(supported, t) == \E s \in supported : s = t

\* pem.Decode as encodeToDer uses it: the block's bytes, or <<>> for no block
pemDecode(data) ==
    IF Len(data) = 3 /\ data[1] = "-----BEGIN" /\ data[3] = "-----END"
    THEN <<data[2]>>
    ELSE <<>>
\* a variant that passes data without PEM framing on as DER
encodeToDerLenient(encoding, data) ==
    IF encoding = "PEM" /\ pemDecode(data) # <<>>
    THEN [der |-> pemDecode(data), err |-> FALSE]
    ELSE [der |-> data, err |-> FALSE]

\* encodeToDer
encodeToDer(encoding, data) ==
    IF encoding = "PEM"
    THEN IF pemDecode(data) = <<>>
         THEN [der |-> <<>>, err |-> TRUE]
         ELSE [der |-> pemDecode(data), err |-> FALSE]
    ELSE [der |-> data, err |-> FALSE]

\* the switch of ProvisionOwnerCredentials' delete loop
isSupersededCredential(cred) ==
    \/ cred.usage = CredentialUsage_CERT /\ cred.type = ASYMMETRIC_SIGNING_WITH_CERTIFICATE
    \/ cred.usage = CredentialUsage_TRUST_CA /\ cred.type = ASYMMETRIC_SIGNING_WITH_CERTIFICATE
\* a variant that takes every content format other than the generic one for a compliant device
IsIotivityLenient(resp) ==
    IF resp.failed THEN [is |-> FALSE, err |-> TRUE]
    ELSE IF resp.code # "Content" THEN [is |-> FALSE, err |-> TRUE]
    ELSE IF resp.cf = AppCBOR THEN [is |-> TRUE, err |-> FALSE]
    ELSE [is |-> FALSE, err |-> FALSE]

\* coapClient.IsIotivity on a response [failed, code, cf]
IsIotivity(resp) ==
    IF resp.failed THEN [is |-> FALSE, err |-> TRUE]
    ELSE IF resp.code # "Content" THEN [is |-> FALSE, err |-> TRUE]
    ELSE IF resp.cf = NoFormat THEN [is |-> FALSE, err |-> TRUE]
    ELSE IF resp.cf = AppCBOR THEN [is |-> TRUE, err |-> FALSE]
    ELSE IF resp.cf = AppOcfCbor THEN [is |-> FALSE, err |-> FALSE]
    ELSE [is |-> FALSE, err |-> TRUE]

\* a variant that only checks that the device has an owner
ownerVerifiedNonEmpty(read, owner) == read # ""

\* the owner check after the read back
ownerVerified(read, owner) == read = owner

\* a variant without the check of the supported operational modes
provisionStateErrorAnyMode(ps) ==
    IF ps.pending THEN ErrPending(ps.state)
    ELSE IF ps.state # "RFOTM" THEN ErrNotRFOTM(ps.state)
    ELSE Nil

\* a variant that only checks the operational mode
provisionStateErrorModeOnly(ps) == IF ~ps.cd THEN Err("modeUnsupported") ELSE Nil

\* the three checks on the provisioning status OwnDevice read
provisionStateError(ps) ==
    IF ps.pending THEN ErrPending(ps.state)
    ELSE IF ps.state # "RFOTM" THEN ErrNotRFOTM(ps.state)
    ELSE IF ~ps.cd THEN Err("modeUnsupported")
    ELSE Nil

(***************************************************************************)
(* The device.                                                             *)
(***************************************************************************)
RECURSIVE SortedIds(_)
SortedIds(S) ==
    IF S = {} THEN <<>>
    ELSE LET m == CHOOSE x \in S : \A y \in S : x <= y
         IN  <<m>> \o SortedIds(S \ {m})

MaxId(S) == IF S = {} THEN 0 ELSE CHOOSE x \in S : \A y \in S : y <= x

\* the device stores a written credential under a fresh id
StoreCredential(cs, c) ==
    cs \cup {[id |-> MaxId({x.id : x \in cs}) + 1, subject |-> c.subject,
              type |-> c.type, usage |-> c.usage, data |-> c.data]}

\* GET /oic/sec/cred?subjectuuid=s
CredentialsOf(cs, s) == {c \in cs : c.subject = s}

PriorCert   == [id |-> 1, subject |-> deviceID, type |-> ASYMMETRIC_SIGNING_WITH_CERTIFICATE,
                usage |-> CredentialUsage_CERT, data |-> <<"old cert">>]
PriorAnchor == [id |-> 2, subject |-> otherID, type |-> ASYMMETRIC_SIGNING_WITH_CERTIFICATE,
                usage |-> CredentialUsage_TRUST_CA, data |-> <<"old ca">>]
PriorOwnCA  == [id |-> 3, subject |-> deviceID, type |-> ASYMMETRIC_SIGNING_WITH_CERTIFICATE,
                usage |-> CredentialUsage_TRUST_CA, data |-> <<"mfg ca">>]
PriorPsk    == [id |-> 4, subject |-> deviceID, type |-> SYMMETRIC_PAIR_WISE,
                usage |-> "", data |-> <<"psk">>]

PriorCredentialSets ==
    {{}, {PriorCert}, {PriorAnchor, PriorPsk}, {PriorCert, PriorOwnCA},
     {PriorCert, PriorAnchor, PriorOwnCA, PriorPsk}}

\* what GET /oic/sec/csr can answer: DER, PEM, or PEM with broken framing
CsrResponses ==
    {[encoding |-> "DER", data |-> <<"csr">>],
     [encoding |-> "PEM", data |-> <<"-----BEGIN", "csr", "-----END">>],
     [encoding |-> "PEM", data |-> <<"-----BEGIN", "csr">>]}

NoCsr == [encoding |-> "", data |-> <<>>]

\* what the implementation probe can get back
ProbeResponses ==
    {[failed |-> TRUE, code |-> "", cf |-> NoFormat],
     [failed |-> FALSE, code |-> "NotFound", cf |-> NoFormat]}
    \cup {[failed |-> FALSE, code |-> "Content", cf |-> f] :
            f \in {NoFormat, AppCBOR, AppOcfCbor, AppJSON}}

NoDoxm == [owned |-> FALSE, deviceOwner |-> "", supported |-> {}, sel |-> "",
           rowner |-> "", deviceId |-> ""]

(***************************************************************************)
(* Control flow of OwnDevice.                                              *)
(***************************************************************************)
\* the calls of OwnDevice (with those of ProvisionOwnerCredentials and
\* iotivityHack in place) in the order of the source
StepOrder ==
    <<"findClient", "getSdkDeviceID", "selectOTM", "getDevice", "dial",
      "getProvisionState", "updateProvisionState",
      "getCsr", "encodeToDer", "sign", "getCredentials", "deleteCredential",
      "setIdentityCredential", "setCaCredential",
      "isIotivity", "hackSetDeviceOwner", "hackSetCredential", "hackDeleteCredential",
      "setDeviceOwner", "verifyOwner", "setDeviceOwned", "closeTls",
      "setOwnerProvisionState", "setOwnerAcl", "provisionDevice", "provisionClose",
      "done">>

StepIndex(p) == CHOOSE i \in 1..Len(StepOrder) : StepOrder[i] = p

\* a variant that marks the device owned before it verifies the owner
StepAfterUnverified(p) ==
    CASE p = "setDeviceOwner" -> "setDeviceOwned"
      [] p = "setDeviceOwned" -> "verifyOwner"
      [] p = "verifyOwner"    -> "closeTls"
      [] OTHER                -> StepOrder[StepIndex(p) + 1]

\* the statement that follows call p when p succeeded
StepAfter(p) == StepOrder[StepIndex(p) + 1]

Call(op, arg, ok) == log' = Append(log, [op |-> op, arg |-> arg, ok |-> ok])

Goto(p)   == pc' = p /\ UNCHANGED <<result, udpOpen>>

\* return: the deferred client.Close() runs
Return(r) == pc' = "done" /\ result' = r /\ udpOpen' = FALSE

\* "if err != nil { return fmt.Errorf(errMsg, deviceID, ...) }" after call p
OnError(p, r) == Return(r)

\* what OwnDevice returns when the write of the selected OTM failed
selectOTMFailed(own, sdk) ==
    IF own.owned
    THEN IF own.deviceOwner = sdk THEN Nil ELSE ErrAlreadyOwned(own.deviceOwner)
    ELSE Err("selectOTM")

(***************************************************************************)
(* Init: one device in any state a device can report, one OwnDevice call   *)
(* about to start.                                                         *)
(***************************************************************************)
InitDevice ==
    /\ \E owner \in {"", sdkID, otherID}, sup \in SUBSET {JustWorks, ManufacturerCertificate} :
         doxm = [owned |-> owner # "", deviceOwner |-> owner, supported |-> sup,
                 sel |-> "", rowner |-> owner, deviceId |-> deviceID]
    /\ \E pending \in BOOLEAN, state \in OperationalStates, cd \in BOOLEAN :
         pstat = [pending |-> pending, state |-> state, cd |-> cd, mode |-> "", rowner |-> ""]
    /\ creds \in PriorCredentialSets
    /\ acl = {}

InitOwn ==
    /\ pc = "findClient"
    /\ result = Running
    /\ log = <<>>
    /\ ownership = NoDoxm
    /\ links = "none"
    /\ tlsOpen = FALSE
    /\ udpOpen = FALSE
    /\ \E n \in 0..MaxCAs : CAs = [k \in 1..n |-> caRaw(k)]
    /\ csr = NoCsr
    /\ der = <<>>
    /\ signedCsr = <<>>
    /\ delQueue = <<>>
    /\ caIdx = 0
    /\ contentFormat = NoFormat
    /\ verifyOwner = ""

\* no discovery is running
DiscoverIdle ==
    /\ conn = 0
    /\ dpc = "idle"
    /\ spawned = 0
    /\ gpc = <<>>
    /\ wg = 0
    /\ cancelled = FALSE
    /\ derr = "none"
    /\ ctxOwnDone = FALSE
    /\ callerDone = FALSE
    /\ qfailed = {}
    /\ responses = <<>>
    /\ hClient = 0
    /\ hErr = 0
    /\ clientSets = 0
    /\ fpc = "idle"
    /\ fres = [client |-> 0, err |-> "none"]

\* no call of the cached Client.OwnDevice is running
CacheIdle ==
    /\ cpc = <<>>
    /\ tid = <<>>
    /\ d1 = <<>>
    /\ d2 = <<>>
    /\ tmp = <<>>
    /\ stored = <<>>
    /\ cres = <<>>
    /\ cache = <<>>
    /\ refs = <<>>
    /\ hopen = <<>>
    /\ hid = <<>>
    /\ nh = 0
    /\ cacheHeld = {}
    /\ devId = ""
    /\ secured = FALSE
    /\ dstate = ""
    /\ marked = {}

\* no resource is observed
ObserveIdle ==
    /\ opc = "idle"
    /\ oid = 0
    /\ ores = "none"
    /\ issued = 0
    /\ observations = {}
    /\ active = {}
    /\ closeHandlers = {}
    /\ connected = FALSE
    /\ closing = {}
    /\ spc = <<>>
    /\ sid = <<>>
    /\ sres = <<>>
    /\ sknown = <<>>
    /\ stoppedOk = {}
    /\ handled = {}
    /\ late = {}
    /\ ofailed = {}
    /\ apc = "idle"
    /\ aobs = <<>>
    /\ acur = 0
    /\ aerrs = 0
    /\ atCall = {}
    /\ ares = "none"
\* handleResponse, DialTcpTls, Reboot and FactoryReset have not been called
AuxIdle ==
    /\ hresp = [code |-> "none", decodes |-> FALSE, peer |-> "none", links |-> <<>>]
    /\ hcalls = <<>>
    /\ tpc = "idle"
    /\ tchain = <<>>
    /\ tcalled = <<>>
    /\ tverify = "none"
    /\ tres = "none"
    /\ mpc = "idle"
    /\ mreq = "none"
    /\ mlinks = <<>>
    /\ mitErr = FALSE
    /\ msent = <<>>
    /\ mresp = -1
    /\ mres = "none"

Init == InitDevice /\ InitOwn /\ DiscoverIdle /\ CacheIdle /\ ObserveIdle /\ AuxIdle

(***************************************************************************)
(* OwnDevice, lines 302-391.                                               *)
(***************************************************************************)
\* client, err := c.ownDeviceFindClient(...); the supportOtm check
OwnFindClient ==
    /\ pc = "findClient"
    /\ \E found \in BOOLEAN :
        /\ Call("findClient", 0, found)
        /\ IF ~found
           THEN /\ pc' = "done" /\ result' = Err("findClient")
                /\ UNCHANGED <<udpOpen, ownership>>
           ELSE /\ ownership' = doxm
                /\ IF supportOtm(doxm.supported, Type)
                   THEN pc' = StepAfter("findClient") /\ result' = result /\ udpOpen' = TRUE
                   ELSE Return(ErrUnsupported(Type, doxm.supported))
    /\ UNCHANGED <<links, tlsOpen, CAs, discVars, cacheVars, obsVars, auxVars, provVars, devVars>>

\* sdkID, err := c.GetSdkDeviceID()
OwnGetSdkDeviceID ==
    /\ pc = "getSdkDeviceID"
    /\ \E ok \in BOOLEAN :
        /\ Call("getSdkDeviceID", 0, ok)
        /\ IF ok THEN Goto(StepAfter("getSdkDeviceID"))
                 ELSE OnError("getSdkDeviceID", Err("getSdkDeviceID"))
    /\ UNCHANGED <<ownership, links, tlsOpen, CAs, discVars, cacheVars, obsVars, auxVars, provVars, devVars>>

\* err = client.UpdateResource(ctx, "/oic/sec/doxm", selectOTM, nil)
OwnSelectOTM ==
    /\ pc = "selectOTM"
    /\ \E ok \in BOOLEAN :
        /\ Call("selectOTM", 0, ok)
        /\ IF ok
           THEN /\ doxm' = [doxm EXCEPT !.sel = Type]
                /\ Goto(StepAfter("selectOTM"))
           ELSE /\ UNCHANGED doxm
                /\ Return(selectOTMFailed(ownership, sdkID))
    /\ UNCHANGED <<ownership, links, tlsOpen, CAs, discVars, cacheVars, obsVars, auxVars, provVars, pstat, creds, acl>>

\* deviceClient, err := c.GetDevice(ctx, deviceID, nil); the search for a TCP secure address
OwnGetDevice ==
    /\ pc = "getDevice"
    /\ \E ok \in BOOLEAN, l \in {"empty", "noTcpSecureAddr", "tcpSecureAddr"} :
        /\ Call("getDevice", 0, ok)
        /\ IF ~ok
           THEN UNCHANGED links /\ OnError("getDevice", Err("getDevice"))
           ELSE /\ links' = l
                /\ IF l = "empty" THEN Return(Err("linksEmpty"))
                   ELSE IF l = "noTcpSecureAddr" THEN Return(Err("noTcpSecureAddr"))
                   ELSE Goto(StepAfter("getDevice"))
    /\ UNCHANGED <<ownership, tlsOpen, CAs, discVars, cacheVars, obsVars, auxVars, provVars, devVars>>

\* tlsClient, err := otmClient.Dial(ctx, tlsAddr)
OwnDial ==
    /\ pc = "dial"
    /\ \E ok \in BOOLEAN :
        /\ Call("dial", 0, ok)
        /\ tlsOpen' = ok
        /\ IF ok THEN Goto(StepAfter("dial")) ELSE OnError("dial", Err("dial"))
    /\ UNCHANGED <<ownership, links, CAs, discVars, cacheVars, obsVars, auxVars, provVars, devVars>>

\* err = tlsClient.GetResource(ctx, "/oic/sec/pstat", &provisionState) and the checks on it
OwnGetProvisionState ==
    /\ pc = "getProvisionState"
    /\ \E ok \in BOOLEAN :
        /\ Call("getProvisionState", 0, ok)
        /\ IF ~ok THEN OnError("getProvisionState", Err("getProvisionState"))
           ELSE IF provisionStateError(pstat) # Nil THEN Return(provisionStateError(pstat))
           ELSE Goto(StepAfter("getProvisionState"))
    /\ UNCHANGED <<ownership, links, tlsOpen, CAs, discVars, cacheVars, obsVars, auxVars, provVars, devVars>>

\* err = tlsClient.UpdateResource(ctx, "/oic/sec/pstat", updateProvisionState, nil)
OwnUpdateProvisionState ==
    /\ pc = "updateProvisionState"
    /\ \E ok \in BOOLEAN :
        /\ Call("updateProvisionState", 0, ok)
        /\ IF ok
           THEN /\ pstat' = [pstat EXCEPT !.mode = "CLIENT_DIRECTED"]
                /\ Goto(StepAfter("updateProvisionState"))
           ELSE /\ UNCHANGED pstat
                /\ OnError("updateProvisionState", Err("updateProvisionState"))
    /\ UNCHANGED <<ownership, links, tlsOpen, CAs, discVars, cacheVars, obsVars, auxVars, provVars, doxm, creds, acl>>

(***************************************************************************)
(* ManufacturerOTMClient.ProvisionOwnerCredentials, lines 160-235.         *)
(***************************************************************************)
\* err := tlsClient.GetResource(ctx, "/oic/sec/csr", &csr)
ProvGetCsr ==
    /\ pc = "getCsr"
    /\ \E ok \in BOOLEAN, resp \in CsrResponses :
        /\ Call("getCsr", 0, ok)
        /\ IF ok
           THEN csr' = resp /\ Goto(StepAfter("getCsr"))
           ELSE UNCHANGED csr /\ OnError("getCsr", Err("getCsr"))
    /\ UNCHANGED <<ownership, links, tlsOpen, CAs, discVars, cacheVars, obsVars, auxVars, devVars>>
    /\ UNCHANGED <<der, signedCsr, delQueue, caIdx, contentFormat, verifyOwner>>

\* der, err := encodeToDer(csr.Encoding, csr.CertificateSigningRequest)
ProvEncodeToDer ==
    /\ pc = "encodeToDer"
    /\ LET r == encodeToDer(csr.encoding, csr.data) IN
        /\ Call("encodeToDer", 0, ~r.err)
        /\ IF r.err
           THEN UNCHANGED der /\ OnError("encodeToDer", Err("encodeToDer"))
           ELSE der' = r.der /\ Goto(StepAfter("encodeToDer"))
    /\ UNCHANGED <<ownership, links, tlsOpen, CAs, discVars, cacheVars, obsVars, auxVars, devVars>>
    /\ UNCHANGED <<csr, signedCsr, delQueue, caIdx, contentFormat, verifyOwner>>

\* signedCsr, err := otmc.signer.Sign(ctx, der)
ProvSign ==
    /\ pc = "sign"
    /\ \E ok \in BOOLEAN :
        /\ Call("sign", 0, ok)
        /\ IF ok
           THEN signedCsr' = <<"signed">> \o der /\ Goto(StepAfter("sign"))
           ELSE UNCHANGED signedCsr /\ OnError("sign", Err("sign"))
    /\ UNCHANGED <<ownership, links, tlsOpen, CAs, discVars, cacheVars, obsVars, auxVars, devVars>>
    /\ UNCHANGED <<csr, der, delQueue, caIdx, contentFormat, verifyOwner>>
\* a variant that goes on to the identity credential when the credential read failed
ProvGetCredentialsIgnoreError ==
    /\ pc = "getCredentials"
    /\ \E ok \in BOOLEAN :
        /\ Call("getCredentials", 0, ok)
        /\ IF ok
           THEN LET q == SortedIds({c.id : c \in {x \in CredentialsOf(creds, deviceID) :
                                                    isSupersededCredential(x)}})
                IN  /\ delQueue' = q
                    /\ IF q = <<>> THEN Goto(StepAfter("deleteCredential"))
                                   ELSE Goto("deleteCredential")
           ELSE UNCHANGED delQueue /\ Goto(StepAfter("deleteCredential"))
    /\ UNCHANGED <<ownership, links, tlsOpen, CAs, discVars, cacheVars, obsVars, auxVars, devVars>>
    /\ UNCHANGED <<csr, der, signedCsr, caIdx, contentFormat, verifyOwner>>

\* err = tlsClient.GetResource(ctx, "/oic/sec/cred", &deviceCredential, WithCredentialSubject(deviceID))
ProvGetCredentials ==
    /\ pc = "getCredentials"
    /\ \E ok \in BOOLEAN :
        /\ Call("getCredentials", 0, ok)
        /\ IF ok
           THEN LET q == SortedIds({c.id : c \in {x \in CredentialsOf(creds, deviceID) :
                                                    isSupersededCredential(x)}})
                IN  /\ delQueue' = q
                    /\ IF q = <<>> THEN Goto(StepAfter("deleteCredential"))
                                   ELSE Goto("deleteCredential")
           ELSE UNCHANGED delQueue /\ OnError("getCredentials", Err("getCredentials"))
    /\ UNCHANGED <<ownership, links, tlsOpen, CAs, discVars, cacheVars, obsVars, auxVars, devVars>>
    /\ UNCHANGED <<csr, der, signedCsr, caIdx, contentFormat, verifyOwner>>

\* err = tlsClient.DeleteResource(ctx, "/oic/sec/cred", nil, WithCredentialId(cred.ID))
ProvDeleteCredential ==
    /\ pc = "deleteCredential"
    /\ delQueue # <<>>
    /\ \E ok \in BOOLEAN :
        /\ Call("deleteCredential", Head(delQueue), ok)
        /\ IF ok
           THEN /\ creds' = {c \in creds : c.id # Head(delQueue)}
                /\ delQueue' = Tail(delQueue)
                /\ IF Tail(delQueue) = <<>> THEN Goto(StepAfter("deleteCredential"))
                                            ELSE Goto("deleteCredential")
           ELSE /\ UNCHANGED <<creds, delQueue>>
                /\ OnError("deleteCredential", Err("deleteCredential"))
    /\ UNCHANGED <<ownership, links, tlsOpen, CAs, discVars, cacheVars, obsVars, auxVars, doxm, pstat, acl>>
    /\ UNCHANGED <<csr, der, signedCsr, caIdx, contentFormat, verifyOwner>>

\* err = tlsClient.UpdateResource(ctx, "/oic/sec/cred", setIdentityDeviceCredential, nil)
ProvSetIdentityCredential ==
    /\ pc = "setIdentityCredential"
    /\ \E ok \in BOOLEAN :
        /\ Call("setIdentityCredential", 0, ok)
        /\ IF ok
           THEN /\ creds' = StoreCredential(creds, setIdentityDeviceCredential(deviceID, signedCsr))
                /\ IF Len(CAs) = 0 THEN Goto(StepAfter("setCaCredential"))
                                   ELSE Goto("setCaCredential")
           ELSE /\ UNCHANGED creds
                /\ OnError("setIdentityCredential", Err("setIdentityCredential"))
    /\ UNCHANGED <<ownership, links, tlsOpen, CAs, discVars, cacheVars, obsVars, auxVars, doxm, pstat, acl, provVars>>

\* for _, ca := range otmc.CAs { err = tlsClient.UpdateResource(ctx, "/oic/sec/cred", setCaCredential, nil) }
ProvSetCaCredential ==
    /\ pc = "setCaCredential"
    /\ caIdx < Len(CAs)
    /\ \E ok \in BOOLEAN :
        /\ Call("setCaCredential", caIdx + 1, ok)
        /\ IF ok
           THEN /\ creds' = StoreCredential(creds, setCaCredential(sdkID, CAs[caIdx + 1]))
                /\ caIdx' = caIdx + 1
                /\ IF caIdx + 1 = Len(CAs) THEN Goto(StepAfter("setCaCredential"))
                                           ELSE Goto("setCaCredential")
           ELSE /\ UNCHANGED <<creds, caIdx>>
                /\ OnError("setCaCredential", Err("setCaCredential"))
    /\ UNCHANGED <<ownership, links, tlsOpen, CAs, discVars, cacheVars, obsVars, auxVars, doxm, pstat, acl>>
    /\ UNCHANGED <<csr, der, signedCsr, delQueue, contentFormat, verifyOwner>>

(***************************************************************************)
(* The implementation probe and iotivityHack, lines 255-292, 403-412.      *)
(***************************************************************************)
\* isIotivity, err := IsIotivity(ctx, tlsClient)
OwnIsIotivity ==
    /\ pc = "isIotivity"
    /\ \E resp \in ProbeResponses :
        LET r == IsIotivity(resp) IN
        /\ Call("isIotivity", 0, ~r.err)
        /\ contentFormat' = resp.cf
        /\ IF r.err THEN OnError("isIotivity", Err("isIotivity"))
           ELSE IF r.is THEN Goto(StepAfter("isIotivity"))
           ELSE Goto(StepAfter("hackDeleteCredential"))
    /\ UNCHANGED <<ownership, links, tlsOpen, CAs, discVars, cacheVars, obsVars, auxVars, devVars>>
    /\ UNCHANGED <<csr, der, signedCsr, delQueue, caIdx, verifyOwner>>

\* err := tlsClient.UpdateResource(ctx, "/oic/sec/doxm", setDeviceOwner, nil) with DeviceOwner: hackId
HackSetDeviceOwner ==
    /\ pc = "hackSetDeviceOwner"
    /\ \E ok \in BOOLEAN :
        /\ Call("hackSetDeviceOwner", 0, ok)
        /\ IF ok
           THEN /\ doxm' = [doxm EXCEPT !.deviceOwner = hackId]
                /\ Goto(StepAfter("hackSetDeviceOwner"))
           ELSE /\ UNCHANGED doxm
                /\ OnError("hackSetDeviceOwner", Err("hackSetDeviceOwner"))
    /\ UNCHANGED <<ownership, links, tlsOpen, CAs, discVars, cacheVars, obsVars, auxVars, pstat, creds, acl, provVars>>

\* err = tlsClient.UpdateResource(ctx, "/oic/sec/cred", iotivityHackCredential, nil)
HackSetCredential ==
    /\ pc = "hackSetCredential"
    /\ \E ok \in BOOLEAN :
        /\ Call("hackSetCredential", 0, ok)
        /\ IF ok
           THEN /\ creds' = StoreCredential(creds, iotivityHackCredential)
                /\ Goto(StepAfter("hackSetCredential"))
           ELSE /\ UNCHANGED creds
                /\ OnError("hackSetCredential", Err("hackSetCredential"))
    /\ UNCHANGED <<ownership, links, tlsOpen, CAs, discVars, cacheVars, obsVars, auxVars, doxm, pstat, acl, provVars>>
\* a variant that deletes by the owner's subject instead of the temporary one
HackDeleteCredentialOfOwner ==
    /\ pc = "hackDeleteCredential"
    /\ \E ok \in BOOLEAN :
        /\ Call("hackDeleteCredential", 0, ok)
        /\ IF ok
           THEN /\ creds' = creds \ CredentialsOf(creds, sdkID)
                /\ Goto(StepAfter("hackDeleteCredential"))
           ELSE /\ UNCHANGED creds
                /\ OnError("hackDeleteCredential", Err("hackDeleteCredential"))
    /\ UNCHANGED <<ownership, links, tlsOpen, CAs, discVars, cacheVars, obsVars, auxVars, doxm, pstat, acl, provVars>>

\* err = tlsClient.DeleteResource(ctx, "/oic/sec/cred", nil, WithCredentialSubject(hackId))
HackDeleteCredential ==
    /\ pc = "hackDeleteCredential"
    /\ \E ok \in BOOLEAN :
        /\ Call("hackDeleteCredential", 0, ok)
        /\ IF ok
           THEN /\ creds' = creds \ CredentialsOf(creds, hackId)
                /\ Goto(StepAfter("hackDeleteCredential"))
           ELSE /\ UNCHANGED creds
                /\ OnError("hackDeleteCredential", Err("hackDeleteCredential"))
    /\ UNCHANGED <<ownership, links, tlsOpen, CAs, discVars, cacheVars, obsVars, auxVars, doxm, pstat, acl, provVars>>

(***************************************************************************)
(* OwnDevice, lines 415-499.                                               *)
(***************************************************************************)
\* err = tlsClient.UpdateResource(ctx, "/oic/sec/doxm", setDeviceOwner, nil);
\* a device that accepts the write applies it or does not
OwnSetDeviceOwner ==
    /\ pc = "setDeviceOwner"
    /\ \E ok \in BOOLEAN, applied \in BOOLEAN :
        /\ Call("setDeviceOwner", 0, ok)
        /\ IF ok
           THEN /\ doxm' = IF applied THEN [doxm EXCEPT !.deviceOwner = sdkID] ELSE doxm
                /\ Goto(StepAfter("setDeviceOwner"))
           ELSE /\ UNCHANGED doxm
                /\ OnError("setDeviceOwner", Err("setDeviceOwner"))
    /\ UNCHANGED <<ownership, links, tlsOpen, CAs, discVars, cacheVars, obsVars, auxVars, pstat, creds, acl, provVars>>

\* err = tlsClient.GetResource(ctx, "/oic/sec/doxm", &verifyOwner) and the owner check
OwnVerifyOwner ==
    /\ pc = "verifyOwner"
    /\ \E ok \in BOOLEAN :
        /\ Call("verifyOwner", 0, ok)
        /\ IF ~ok
           THEN UNCHANGED verifyOwner /\ OnError("verifyOwner", Err("verifyOwner"))
           ELSE /\ verifyOwner' = doxm.deviceOwner
                /\ IF ownerVerified(doxm.deviceOwner, sdkID)
                   THEN Goto(StepAfter("verifyOwner"))
                   ELSE Return(Err("ownerMismatch"))
    /\ UNCHANGED <<ownership, links, tlsOpen, CAs, discVars, cacheVars, obsVars, auxVars, devVars>>
    /\ UNCHANGED <<csr, der, signedCsr, delQueue, caIdx, contentFormat>>

\* err = tlsClient.UpdateResource(ctx, "/oic/sec/doxm", setDeviceOwned, nil)
OwnSetDeviceOwned ==
    /\ pc = "setDeviceOwned"
    /\ \E ok \in BOOLEAN :
        /\ Call("setDeviceOwned", 0, ok)
        /\ IF ok
           THEN /\ LET u == setDeviceOwned(sdkID, deviceID) IN
                   doxm' = [doxm EXCEPT !.owned = u.Owned, !.rowner = u.ResourceOwner,
                                        !.deviceId = u.DeviceId]
                /\ Goto(StepAfter("setDeviceOwned"))
           ELSE /\ UNCHANGED doxm
                /\ OnError("setDeviceOwned", Err("setDeviceOwned"))
    /\ UNCHANGED <<ownership, links, tlsOpen, CAs, discVars, cacheVars, obsVars, auxVars, pstat, creds, acl, provVars>>

\* tlsClient.Close()
OwnCloseTls ==
    /\ pc = "closeTls"
    /\ Call("closeTls", 0, TRUE)
    /\ tlsOpen' = FALSE
    /\ Goto(StepAfter("closeTls"))
    /\ UNCHANGED <<ownership, links, CAs, discVars, cacheVars, obsVars, auxVars, provVars, devVars>>

\* err = c.UpdateResource(ctx, deviceID, "/oic/sec/pstat", setOwnerProvisionState, nil)
OwnSetOwnerProvisionState ==
    /\ pc = "setOwnerProvisionState"
    /\ \E ok \in BOOLEAN :
        /\ Call("setOwnerProvisionState", 0, ok)
        /\ IF ok
           THEN /\ pstat' = [pstat EXCEPT !.rowner = sdkID]
                /\ Goto(StepAfter("setOwnerProvisionState"))
           ELSE /\ UNCHANGED pstat
                /\ OnError("setOwnerProvisionState", Err("setOwnerProvisionState"))
    /\ UNCHANGED <<ownership, links, tlsOpen, CAs, discVars, cacheVars, obsVars, auxVars, doxm, creds, acl, provVars>>
\* a variant that takes the owned flag back when the ACL write fails
OwnSetOwnerAclRollback ==
    /\ pc = "setOwnerAcl"
    /\ \E ok \in BOOLEAN :
        /\ Call("setOwnerAcl", 0, ok)
        /\ IF ok
           THEN /\ acl' = acl \cup {setOwnerAcl(sdkID)}
                /\ UNCHANGED doxm
                /\ Goto(StepAfter("setOwnerAcl"))
           ELSE /\ UNCHANGED acl
                /\ doxm' = [doxm EXCEPT !.owned = FALSE, !.deviceOwner = ""]
                /\ OnError("setOwnerAcl", Err("setOwnerAcl"))
    /\ UNCHANGED <<ownership, links, tlsOpen, CAs, discVars, cacheVars, obsVars, auxVars, pstat, creds, provVars>>

\* err = c.UpdateResource(ctx, deviceID, "/oic/sec/acl2", setOwnerAcl, nil)
OwnSetOwnerAcl ==
    /\ pc = "setOwnerAcl"
    /\ \E ok \in BOOLEAN :
        /\ Call("setOwnerAcl", 0, ok)
        /\ IF ok
           THEN /\ acl' = acl \cup {setOwnerAcl(sdkID)}
                /\ Goto(StepAfter("setOwnerAcl"))
           ELSE /\ UNCHANGED acl
                /\ OnError("setOwnerAcl", Err("setOwnerAcl"))
    /\ UNCHANGED <<ownership, links, tlsOpen, CAs, discVars, cacheVars, obsVars, auxVars, doxm, pstat, creds, provVars>>

\* p, err := c.ProvisionDevice(ctx, deviceID)
OwnProvisionDevice ==
    /\ pc = "provisionDevice"
    /\ \E ok \in BOOLEAN :
        /\ Call("provisionDevice", 0, ok)
        /\ IF ok THEN Goto(StepAfter("provisionDevice"))
                 ELSE OnError("provisionDevice", Err("provisionDevice"))
    /\ UNCHANGED <<ownership, links, tlsOpen, CAs, discVars, cacheVars, obsVars, auxVars, provVars, devVars>>

\* err = p.Close(ctx); return nil
OwnProvisionClose ==
    /\ pc = "provisionClose"
    /\ \E ok \in BOOLEAN :
        /\ Call("provisionClose", 0, ok)
        /\ IF ok THEN Return(Nil)
                 ELSE OnError("provisionClose", Err("provisionClose"))
    /\ UNCHANGED <<ownership, links, tlsOpen, CAs, discVars, cacheVars, obsVars, auxVars, provVars, devVars>>

Next ==
    \/ OwnFindClient
    \/ OwnGetSdkDeviceID
    \/ OwnSelectOTM
    \/ OwnGetDevice
    \/ OwnDial
    \/ OwnGetProvisionState
    \/ OwnUpdateProvisionState
    \/ ProvGetCsr
    \/ ProvEncodeToDer
    \/ ProvSign
    \/ ProvGetCredentials
    \/ ProvDeleteCredential
    \/ ProvSetIdentityCredential
    \/ ProvSetCaCredential
    \/ OwnIsIotivity
    \/ HackSetDeviceOwner
    \/ HackSetCredential
    \/ HackDeleteCredential
    \/ OwnSetDeviceOwner
    \/ OwnVerifyOwner
    \/ OwnSetDeviceOwned
    \/ OwnCloseTls
    \/ OwnSetOwnerProvisionState
    \/ OwnSetOwnerAcl
    \/ OwnProvisionDevice
    \/ OwnProvisionClose

Spec == Init /\ [][Next]_vars

(***************************************************************************)
(* Reading the log.                                                        *)
(***************************************************************************)
Called(op)    == \E i \in DOMAIN log : log[i].op = op
Succeeded(op) == \E i \in DOMAIN log : log[i].op = op /\ log[i].ok
Failed(op)    == \E i \in DOMAIN log : log[i].op = op /\ ~log[i].ok
EveryCallSucceeded == \A i \in DOMAIN log : log[i].ok
SomeCallFailed     == \E i \in DOMAIN log : ~log[i].ok
LastCall == log[Len(log)].op

DeviceWrites ==
    {"selectOTM", "updateProvisionState", "setIdentityCredential", "setCaCredential",
     "hackSetDeviceOwner", "hackSetCredential", "setDeviceOwner", "setDeviceOwned",
     "setOwnerProvisionState", "setOwnerAcl", "provisionDevice", "provisionClose"}
DeviceDeletes == {"deleteCredential", "hackDeleteCredential"}
DeviceReads ==
    {"findClient", "getDevice", "getProvisionState", "getCsr", "getCredentials",
     "isIotivity", "verifyOwner"}
CredentialCalls ==
    {"getCredentials", "deleteCredential", "setIdentityCredential", "setCaCredential",
     "hackSetCredential", "hackDeleteCredential"}
ProvisioningCalls ==
    {"getCsr", "encodeToDer", "sign", "getCredentials", "deleteCredential",
     "setIdentityCredential", "setCaCredential"}
HackCalls == {"hackSetDeviceOwner", "hackSetCredential", "hackDeleteCredential"}

NoCallIn(S) == \A i \in DOMAIN log : log[i].op \notin S

GrantsAll(owner) ==
    \E e \in acl : e.subject = owner /\ e.permission = AllPermissions /\ e.resources = AllResources

(***************************************************************************)
(* C1. End-to-end success: for a device that lists the manufacturer        *)
(* certificate method, is ReadyForOTM, not pending, supports the           *)
(* client-directed mode and accepts every request (every call of the       *)
(* sequence succeeds: the device is found, exposes a TCP secure address    *)
(* and reads back the owner it was given), OwnDevice returns nil, and the  *)
(* device then has owned = true, deviceOwner = the owner identity and an   *)
(* ACL entry granting the owner all permissions on all resources.          *)
(***************************************************************************)
C1_DeviceReady ==
    /\ ManufacturerCertificate \in doxm.supported
    /\ pstat.state = "RFOTM" /\ ~pstat.pending /\ pstat.cd

C1_AcceptsEveryRequest ==
    /\ EveryCallSucceeded
    /\ links = "tcpSecureAddr"
    /\ verifyOwner = sdkID

C1_EndToEnd ==
    (pc = "done" /\ C1_DeviceReady /\ C1_AcceptsEveryRequest)
        => /\ result = Nil
           /\ doxm.owned
           /\ doxm.deviceOwner = sdkID
           /\ GrantsAll(sdkID)

C1_Witness ==
    /\ pc = "done" /\ C1_DeviceReady /\ C1_AcceptsEveryRequest
    /\ result = Nil /\ doxm.owned /\ GrantsAll(sdkID)

(***************************************************************************)
(* C2. The device operations of one OwnDevice call occur in the order      *)
(* select OTM, dial, read provisioning status, write operational mode,     *)
(* provision credentials, (optional) compatibility patch, write            *)
(* deviceOwner, read back deviceOwner, write owned, close the session,     *)
(* write resourceOwner on the provisioning status, write the owner ACL,    *)
(* re-provision; a step is issued only after every earlier step succeeded, *)
(* and none but the optional patch is skipped.                             *)
(***************************************************************************)
C2_Rank(op) ==
    CASE op = "selectOTM"              -> 1
      [] op = "dial"                   -> 2
      [] op = "getProvisionState"      -> 3
      [] op = "updateProvisionState"   -> 4
      [] op \in ProvisioningCalls      -> 5
      [] op \in HackCalls              -> 6
      [] op = "setDeviceOwner"         -> 7
      [] op = "verifyOwner"            -> 8
      [] op = "setDeviceOwned"         -> 9
      [] op = "closeTls"               -> 10
      [] op = "setOwnerProvisionState" -> 11
      [] op = "setOwnerAcl"            -> 12
      [] op \in {"provisionDevice", "provisionClose"} -> 13
      [] OTHER                         -> 0

C2_StrictOrder ==
    /\ \A i, j \in DOMAIN log :
         (i < j /\ C2_Rank(log[i].op) > 0 /\ C2_Rank(log[j].op) > 0)
            => /\ C2_Rank(log[i].op) <= C2_Rank(log[j].op)
               /\ (C2_Rank(log[i].op) = C2_Rank(log[j].op)
                      => C2_Rank(log[i].op) \in {5, 6, 13})
               /\ log[i].ok
    /\ \A j \in DOMAIN log : \A r \in 1..(C2_Rank(log[j].op) - 1) :
         r # 6 => \E i \in 1..(j - 1) : C2_Rank(log[i].op) = r /\ log[i].ok

C2_Witness ==
    /\ pc = "done" /\ result = Nil
    /\ Succeeded("hackDeleteCredential") /\ Succeeded("provisionClose")

(***************************************************************************)
(* C3. As claimed: every step is attempted at most once, and when a step   *)
(* fails OwnDevice returns an error and issues nothing after it.           *)
(***************************************************************************)
C3_AtMostOnce ==
    \A i, j \in DOMAIN log :
        (log[i].op = log[j].op /\ log[i].arg = log[j].arg) => i = j

C3_NothingAfterFailure ==
    \A i \in DOMAIN log : ~log[i].ok => (i = Len(log) /\ pc = "done")

C3_Original ==
    /\ C3_AtMostOnce
    /\ C3_NothingAfterFailure
    /\ SomeCallFailed => IsError(result)

(***************************************************************************)
(* The part of C3 the code keeps. No step is attempted twice and nothing   *)
(* follows a failed step; the result is an error unless the failed step is *)
(* the write of the selected OTM on a device the discovered Ownership      *)
(* Document reports as owned by the caller's identity: the ownership test  *)
(* sits in that write's error branch, and the failure is turned into nil.  *)
(***************************************************************************)
C3_ShortCircuit ==
    /\ LastCall = "selectOTM"
    /\ ownership.owned /\ ownership.deviceOwner = sdkID
    /\ result = Nil

C3_NoRetryNoLaterStep ==
    /\ C3_AtMostOnce
    /\ C3_NothingAfterFailure
    /\ SomeCallFailed => (IsError(result) \/ C3_ShortCircuit)

C3_Witness ==
    /\ pc = "done" /\ Failed("setOwnerAcl") /\ IsError(result)
    /\ Succeeded("setDeviceOwned")

(***************************************************************************)
(* C4. As claimed: OwnDevice on a device whose discovered Ownership        *)
(* Document reports owned = true with deviceOwner = the caller's identity  *)
(* (the device lists the method and the caller's identity is available)    *)
(* returns nil without dialing and without any read, delete or write of a  *)
(* credential.                                                             *)
(***************************************************************************)
C4_Idempotent ==
    (ownership.owned /\ ownership.deviceOwner = sdkID /\ Succeeded("getSdkDeviceID"))
        => /\ ~Called("dial")
           /\ NoCallIn(CredentialCalls)
           /\ pc = "done" => result = Nil

(***************************************************************************)
(* C5. As claimed: when the discovered Ownership Document reports          *)
(* owned = true with another deviceOwner, OwnDevice fails with an 'already *)
(* owned' error naming that owner, decided before the selected OTM is      *)
(* written: no write reaches the device and no provisioning step runs.     *)
(***************************************************************************)
C5_AlreadyOwnedBeforeWrite ==
    (ownership.owned /\ ownership.deviceOwner # sdkID /\ Succeeded("getSdkDeviceID"))
        => /\ NoCallIn(DeviceWrites \cup DeviceDeletes \cup {"dial"})
           /\ pc = "done" => result = ErrAlreadyOwned(ownership.deviceOwner)

(***************************************************************************)
(* C6. OTM mismatch: when the OTM client's kind is not in the discovered   *)
(* supportedOwnerTransferMethods, OwnDevice fails with an 'unsupported'    *)
(* error naming the kind and the supported set, and has sent no write (nor *)
(* anything else) to the device.                                           *)
(***************************************************************************)
C6_UnsupportedMethod ==
    (Succeeded("findClient") /\ Type \notin ownership.supported)
        => /\ pc = "done"
           /\ result = ErrUnsupported(Type, ownership.supported)
           /\ NoCallIn(DeviceWrites \cup DeviceDeletes \cup {"dial"})
           /\ Len(log) = 1

C6_Witness ==
    /\ pc = "done" /\ result.kind = "unsupported"
    /\ result.otm = ManufacturerCertificate /\ result.supported = {JustWorks}

(***************************************************************************)
(* C7. As claimed: for a device reporting pending = true or                *)
(* operationalState # ReadyForOTM, Dial is never invoked.                  *)
(***************************************************************************)
C7_NotReady == pstat.pending \/ pstat.state # "RFOTM"

C7_Original == C7_NotReady => ~Called("dial")

(***************************************************************************)
(* C7, amended. For a device reporting pending = true or operationalState  *)
(* # ReadyForOTM, OwnDevice fails right after it read the provisioning     *)
(* status over the session Dial has established, and issues no request     *)
(* after that read (no operational-mode write, no credential read, delete  *)
(* or write, no owner write).                                              *)
(***************************************************************************)
C7_FailsAfterRead ==
    (C7_NotReady /\ Succeeded("getProvisionState"))
        => /\ Succeeded("dial")
           /\ LastCall = "getProvisionState"
           /\ pc = "done"
           /\ result = IF pstat.pending THEN ErrPending(pstat.state) ELSE ErrNotRFOTM(pstat.state)

C7_Witness ==
    /\ pstat.pending /\ Succeeded("getProvisionState")
    /\ pc = "done" /\ result.kind = "pending"

(***************************************************************************)
(* C8. Owner verification: if the write of deviceOwner succeeds and the    *)
(* read back returns another deviceOwner, OwnDevice returns an error and   *)
(* issues neither the owned = true write nor any later step.               *)
(***************************************************************************)
C8_OwnerMismatchStops ==
    (Succeeded("setDeviceOwner") /\ Succeeded("verifyOwner") /\ verifyOwner # sdkID)
        => /\ pc = "done"
           /\ IsError(result)
           /\ LastCall = "verifyOwner"
           /\ NoCallIn({"setDeviceOwned", "closeTls", "setOwnerProvisionState", "setOwnerAcl",
                        "provisionDevice", "provisionClose"})

C8_Witness ==
    /\ Succeeded("setDeviceOwner") /\ Succeeded("verifyOwner") /\ verifyOwner # sdkID
    /\ pc = "done" /\ result.kind = "ownerMismatch"

(***************************************************************************)
(* Discovery: ownDeviceFindClient, deviceOwnershipHandler, Discover and    *)
(* runDiscovery.                                                           *)
(***************************************************************************)
ownAll == <<ownVars, provVars, devVars>>

\* the OwnDevice call and the device stay as they are while discovery runs
OwnIdle ==
    /\ pc = "idle"
    /\ result = Running
    /\ log = <<>>
    /\ ownership = NoDoxm
    /\ links = "none"
    /\ tlsOpen = FALSE
    /\ udpOpen = FALSE
    /\ CAs = <<>>
    /\ csr = NoCsr
    /\ der = <<>>
    /\ signedCsr = <<>>
    /\ delQueue = <<>>
    /\ caIdx = 0
    /\ contentFormat = NoFormat
    /\ verifyOwner = ""
    /\ doxm = NoDoxm
    /\ pstat = [pending |-> FALSE, state |-> "RFOTM", cd |-> TRUE, mode |-> "", rowner |-> ""]
    /\ creds = {}
    /\ acl = {}

\* ownDeviceFindClient is about to run over 1..MaxConn connections
InitD ==
    /\ OwnIdle
    /\ CacheIdle
    /\ ObserveIdle
    /\ AuxIdle
    /\ conn \in 1..MaxConn
    /\ dpc = "idle"
    /\ spawned = 0
    /\ gpc = [i \in 1..conn |-> "none"]
    /\ wg = 0
    /\ cancelled = FALSE
    /\ derr = "none"
    /\ ctxOwnDone = FALSE
    /\ callerDone = FALSE
    /\ qfailed = {}
    /\ responses = <<>>
    /\ hClient = 0
    /\ hErr = 0
    /\ clientSets = 0
    /\ fpc = "start"
    /\ fres = [client |-> 0, err |-> "none"]

\* ctx.Done() of the context Discover derives from ctxOwn, itself derived from the caller's
ctxDone == cancelled \/ ctxOwnDone \/ callerDone

\* ctxOwn, cancel := context.WithCancel(ctx); h := newDeviceOwnershipHandler(deviceID, cancel);
\* err := c.GetDeviceOwnership(ctxOwn, status, h) enters Discover
FindStart ==
    /\ fpc = "start"
    /\ fpc' = "discovering"
    /\ dpc' = "spawn"
    /\ UNCHANGED <<conn, qfailed, spawned, gpc, wg, cancelled, derr, ctxOwnDone, callerDone,
                   responses, hClient, hErr, clientSets, fres>>
    /\ UNCHANGED <<ownAll, cacheVars, obsVars, auxVars>>

\* for _, c := range conn { runDiscovery(ctx, c) }: wg.Add(1); go func() ...
DiscoverSpawn ==
    /\ dpc = "spawn"
    /\ spawned < conn
    /\ spawned' = spawned + 1
    /\ wg' = wg + 1
    /\ gpc' = [gpc EXCEPT ![spawned + 1] = "newGetRequest"]
    /\ dpc' = IF spawned + 1 = conn THEN "select" ELSE "spawn"
    /\ UNCHANGED <<conn, qfailed, cancelled, derr, ctxOwnDone, callerDone,
                   responses, hClient, hErr, clientSets, fpc, fres>>
    /\ UNCHANGED <<ownAll, cacheVars, obsVars, auxVars>>

\* case err := <-errors: return err  (the sender's send completes, it returns, wg.Done runs)
DiscoverReceiveError ==
    /\ dpc = "select"
    /\ \E i \in 1..conn :
        /\ gpc[i] \in {"sendError", "sendErrorOrDone"}
        /\ gpc' = [gpc EXCEPT ![i] = "done"]
        /\ wg' = wg - 1
        /\ derr' = "error"
    /\ dpc' = "cancel"
    /\ UNCHANGED <<conn, qfailed, spawned, cancelled, ctxOwnDone, callerDone,
                   responses, hClient, hErr, clientSets, fpc, fres>>
    /\ UNCHANGED <<ownAll, cacheVars, obsVars, auxVars>>

\* a variant that returns the context's error
contextDoneResultCtxErr == "error"

\* what Discover returns from "case <-ctx.Done()"
contextDoneResult == "nil"

\* case <-ctx.Done(): return nil
DiscoverContextDone ==
    /\ dpc = "select"
    /\ ctxDone
    /\ derr' = contextDoneResult
    /\ dpc' = "cancel"
    /\ UNCHANGED <<conn, qfailed, spawned, gpc, wg, cancelled, ctxOwnDone, callerDone,
                   responses, hClient, hErr, clientSets, fpc, fres>>
    /\ UNCHANGED <<ownAll, cacheVars, obsVars, auxVars>>

\* defer cancel()
DiscoverCancel ==
    /\ dpc = "cancel"
    /\ cancelled' = TRUE
    /\ dpc' = "wait"
    /\ UNCHANGED <<conn, qfailed, spawned, gpc, wg, derr, ctxOwnDone, callerDone,
                   responses, hClient, hErr, clientSets, fpc, fres>>
    /\ UNCHANGED <<ownAll, cacheVars, obsVars, auxVars>>

\* defer wg.Wait()
DiscoverWait ==
    /\ dpc = "wait"
    /\ wg = 0
    /\ dpc' = "returned"
    /\ UNCHANGED <<conn, qfailed, spawned, gpc, wg, cancelled, derr, ctxOwnDone, callerDone,
                   responses, hClient, hErr, clientSets, fpc, fres>>
    /\ UNCHANGED <<ownAll, cacheVars, obsVars, auxVars>>

\* req, err := conn.NewGetRequest(href) failed: errors <- fmt.Errorf(...), unguarded
AfterNewGetRequestFailed == "sendError"

\* req, err := conn.NewGetRequest(href)
RunNewGetRequest(i) ==
    /\ gpc[i] = "newGetRequest"
    /\ \E ok \in BOOLEAN :
        /\ gpc' = [gpc EXCEPT ![i] = IF ok THEN "publish" ELSE AfterNewGetRequestFailed]
        /\ qfailed' = IF ok THEN qfailed ELSE qfailed \cup {i}
    /\ UNCHANGED <<conn, dpc, spawned, wg, cancelled, derr, ctxOwnDone, callerDone,
                   responses, hClient, hErr, clientSets, fpc, fres>>
    /\ UNCHANGED <<ownAll, cacheVars, obsVars, auxVars>>

\* waiter, err := conn.PublishMsgWithContext(ctx, req, handler)
RunPublish(i) ==
    /\ gpc[i] = "publish"
    /\ \E ok \in BOOLEAN :
        /\ gpc' = [gpc EXCEPT ![i] = IF ok THEN "waiting" ELSE "sendErrorOrDone"]
        /\ qfailed' = IF ok THEN qfailed ELSE qfailed \cup {i}
    /\ UNCHANGED <<conn, dpc, spawned, wg, cancelled, derr, ctxOwnDone, callerDone,
                   responses, hClient, hErr, clientSets, fpc, fres>>
    /\ UNCHANGED <<ownAll, cacheVars, obsVars, auxVars>>

\* select { case errors <- ...: case <-ctx.Done(): }; return  (the ctx.Done() case)
RunGiveUpSend(i) ==
    /\ gpc[i] = "sendErrorOrDone"
    /\ ctxDone
    /\ gpc' = [gpc EXCEPT ![i] = "done"]
    /\ wg' = wg - 1
    /\ UNCHANGED <<conn, qfailed, dpc, spawned, cancelled, derr, ctxOwnDone, callerDone,
                   responses, hClient, hErr, clientSets, fpc, fres>>
    /\ UNCHANGED <<ownAll, cacheVars, obsVars, auxVars>>

\* select { case <-ctx.Done(): }; the deferred waiter.Cancel() and wg.Done()
RunWaitDone(i) ==
    /\ gpc[i] = "waiting"
    /\ ctxDone
    /\ gpc' = [gpc EXCEPT ![i] = "done"]
    /\ wg' = wg - 1
    /\ UNCHANGED <<conn, qfailed, dpc, spawned, cancelled, derr, ctxOwnDone, callerDone,
                   responses, hClient, hErr, clientSets, fpc, fres>>
    /\ UNCHANGED <<ownAll, cacheVars, obsVars, auxVars>>

\* deviceOwnershipHandler.Handle on response n
Handle(n, kind) ==
    IF kind = "match" /\ hClient = 0
    THEN hClient' = n /\ clientSets' = clientSets + 1 /\ ctxOwnDone' = TRUE
    ELSE UNCHANGED <<hClient, clientSets, ctxOwnDone>>

\* deviceOwnershipHandler.Error on response n
Error(n) == hErr' = IF hErr = 0 THEN n ELSE hErr

\* a response arrives on connection i while its waiter is registered: the record of the
\* wanted device, the record of another device, or one the handler reports as an error
Deliver(i) ==
    /\ gpc[i] = "waiting"
    /\ Len(responses) < MaxResponses
    /\ \E kind \in {"match", "other", "error"} :
        /\ responses' = Append(responses, [from |-> i, kind |-> kind])
        /\ IF kind = "error"
           THEN Error(Len(responses) + 1) /\ UNCHANGED <<hClient, clientSets, ctxOwnDone>>
           ELSE Handle(Len(responses) + 1, kind) /\ UNCHANGED hErr
    /\ UNCHANGED <<conn, qfailed, dpc, spawned, gpc, wg, cancelled, derr, callerDone, fpc, fres>>
    /\ UNCHANGED <<ownAll, cacheVars, obsVars, auxVars>>

\* the caller's context is cancelled or its deadline passes
CallerCancel ==
    /\ ~callerDone
    /\ fpc # "returned"
    /\ callerDone' = TRUE
    /\ UNCHANGED <<conn, qfailed, dpc, spawned, gpc, wg, cancelled, derr, ctxOwnDone,
                   responses, hClient, hErr, clientSets, fpc, fres>>
    /\ UNCHANGED <<ownAll, cacheVars, obsVars, auxVars>>
\* a variant that looks at Discover's error before it looks at the captured client
findClientResultErrFirst(client, err, herr) ==
    IF err # "nil" THEN [client |-> 0, err |-> "discover"]
    ELSE IF client # 0 THEN [client |-> client, err |-> "nil"]
    ELSE IF herr # 0 THEN [client |-> 0, err |-> "handler"]
    ELSE [client |-> 0, err |-> "device not found"]

\* what ownDeviceFindClient returns from h.Client(), Discover's error and h.Err()
findClientResult(client, err, herr) ==
    IF client # 0 THEN [client |-> client, err |-> "nil"]
    ELSE IF err # "nil" THEN [client |-> 0, err |-> "discover"]
    ELSE IF herr # 0 THEN [client |-> 0, err |-> "handler"]
    ELSE [client |-> 0, err |-> "device not found"]

\* client := h.Client(); ...; return; defer cancel()
FindReturn ==
    /\ fpc = "discovering"
    /\ dpc = "returned"
    /\ fres' = findClientResult(hClient, derr, hErr)
    /\ ctxOwnDone' = TRUE
    /\ fpc' = "returned"
    /\ UNCHANGED <<conn, qfailed, dpc, spawned, gpc, wg, cancelled, derr, callerDone,
                   responses, hClient, hErr, clientSets>>
    /\ UNCHANGED <<ownAll, cacheVars, obsVars, auxVars>>

\* the steps of Discover and of its goroutines
DiscoverStep ==
    \/ DiscoverSpawn
    \/ DiscoverReceiveError
    \/ DiscoverContextDone
    \/ DiscoverCancel
    \/ DiscoverWait
    \/ \E i \in 1..conn : RunNewGetRequest(i)
    \/ \E i \in 1..conn : RunPublish(i)
    \/ \E i \in 1..conn : RunGiveUpSend(i)
    \/ \E i \in 1..conn : RunWaitDone(i)

NextD ==
    \/ FindStart
    \/ DiscoverStep
    \/ \E i \in 1..conn : Deliver(i)
    \/ CallerCancel
    \/ FindReturn

SpecD == InitD /\ [][NextD]_vars

AllGoroutinesDone == \A i \in 1..spawned : gpc[i] = "done"

DiscoverRunning == dpc \notin {"idle", "returned"}

(***************************************************************************)
(* C9. As claimed: once the caller's context is cancelled or an endpoint   *)
(* error has been received, Discover goes on to return (while it has not   *)
(* returned, it or one of its goroutines can take a step), and when it has *)
(* returned every goroutine it started has finished.                       *)
(***************************************************************************)
C9_ReturnsOnceCancelled ==
    (DiscoverRunning /\ (callerDone \/ derr = "error")) => ENABLED DiscoverStep

C9_NoGoroutineLeft == dpc = "returned" => AllGoroutinesDone

C9_DiscoverTerminates == C9_ReturnsOnceCancelled /\ C9_NoGoroutineLeft

(***************************************************************************)
(* C10. As claimed: when the handler signals 'found' on a matching record, *)
(* every outstanding query is cancelled and Discover returns (while it has *)
(* not returned, it or one of its goroutines can take a step), and the     *)
(* captured client is set exactly once, by the first matching record.      *)
(***************************************************************************)
C10_ReturnsOnceFound ==
    (DiscoverRunning /\ hClient # 0) => ENABLED DiscoverStep

C10_SetOnceByFirstMatch ==
    /\ clientSets <= 1
    /\ hClient # 0 =>
          /\ responses[hClient].kind = "match"
          /\ \A k \in 1..(hClient - 1) : responses[k].kind # "match"
    /\ (\E k \in DOMAIN responses : responses[k].kind = "match") => hClient # 0

C10_FoundCancelsDiscovery ==
    /\ C10_ReturnsOnceFound
    /\ C10_SetOnceByFirstMatch
    /\ (dpc = "returned" /\ hClient # 0) => AllGoroutinesDone

(***************************************************************************)
(* C11. As claimed: a transport error on one endpoint does not abort the   *)
(* sibling queries. A sibling whose query was published and is waiting for *)
(* responses has its context cancelled only by the caller (cancellation or *)
(* timeout) or by the handler that found the device, never because another *)
(* endpoint's query failed.                                                *)
(***************************************************************************)
C11_SiblingAborted(j) ==
    /\ gpc[j] = "waiting"
    /\ derr = "error"
    /\ ctxDone

C11_ErrorKeepsSiblings ==
    (~callerDone /\ hClient = 0) => \A j \in 1..conn : ~C11_SiblingAborted(j)

(***************************************************************************)
(* C12. A discovery in which no endpoint's query had a transport error     *)
(* (neither NewGetRequest nor PublishMsgWithContext failed) and that ends  *)
(* because the caller's context expired returns no error, whether or not   *)
(* a device answered; and once the context has expired it does return.     *)
(***************************************************************************)
C12_NoTransportError == qfailed = {}

C12_TimeoutIsNoError ==
    /\ (dpc = "returned" /\ C12_NoTransportError) => derr = "nil"
    /\ (DiscoverRunning /\ callerDone /\ C12_NoTransportError)
          => ENABLED DiscoverStep

C12_Witness ==
    /\ dpc = "returned" /\ C12_NoTransportError /\ callerDone /\ derr = "nil"
    /\ hClient = 0 /\ responses # <<>>

(***************************************************************************)
(* The device cache: Client.OwnDevice and ownDeviceWithSigners, run by     *)
(* 1..MaxCallers concurrent calls on one physical device.  The cache's own *)
(* operations are not part of the sources at hand and follow section 4.5   *)
(* of the specification.                                                   *)
(***************************************************************************)
MaxCallers == 2
MaxHandles == 2

\* the identifier the device answers to once an ownership transfer changed it
newID == "newID"

DeviceIDs == {deviceID, newID}
Callers   == 1..MaxCallers
Handles   == 1..MaxHandles

\* the identifiers a device can have after it was owned under identifier id
OwnedDeviceIDs(id) == {id, newID}

\* Acquire on a cached handle: one more reference
Acquire(h) == refs' = [refs EXCEPT ![h] = @ + 1]

\* Acquire(deviceID) -> Handle: a reference on the cached connection, or a new
\* connection to the device that answers to id, cached under id
GetRefDevice(id, h) ==
    \/ /\ cache[id] # 0
       /\ h = cache[id]
       /\ Acquire(h)
       /\ UNCHANGED <<cache, hopen, hid, nh>>
    \/ /\ cache[id] = 0
       /\ devId = id
       /\ nh < MaxHandles
       /\ h = nh + 1
       /\ nh' = nh + 1
       /\ refs' = [refs EXCEPT ![h] = 1]
       /\ hopen' = [hopen EXCEPT ![h] = TRUE]
       /\ hid' = [hid EXCEPT ![h] = id]
       /\ cache' = [cache EXCEPT ![id] = h]

\* GetRefDevice can fail when the device is not cached under id
GetRefDeviceFails(id) == cache[id] = 0

\* Release(handle): one reference less; at zero the connection is closed and
\* the handle leaves the cache
Release(h) ==
    /\ refs' = [refs EXCEPT ![h] = @ - 1]
    /\ IF refs[h] = 1
       THEN /\ hopen' = [hopen EXCEPT ![h] = FALSE]
            /\ cache' = [k \in DeviceIDs |-> IF cache[k] = h THEN 0 ELSE cache[k]]
       ELSE UNCHANGED <<hopen, cache>>

\* RemoveDevice(deviceID, handle): evicts the entry of id if it is h
RemoveDevice(id, h) ==
    cache' = [cache EXCEPT ![id] = IF @ = h THEN 0 ELSE @]

\* TryStoreDeviceToTemporaryCache(handle): h is stored under its identifier
\* unless a handle is cached there already, which is then handed out with a
\* reference of its own
TryStoreDeviceToTemporaryCache(h, t, st) ==
    IF cache[hid[h]] # 0
    THEN /\ t = cache[hid[h]]
         /\ st = FALSE
         /\ Acquire(t)
         /\ UNCHANGED cache
    ELSE /\ t = h
         /\ st = TRUE
         /\ cache' = [cache EXCEPT ![hid[h]] = h]
         /\ UNCHANGED refs

\* d.IsSecured()
IsSecured(h) == secured

\* MaxCallers calls of Client.OwnDevice are about to run; nothing is cached
InitC ==
    /\ OwnIdle
    /\ DiscoverIdle
    /\ ObserveIdle
    /\ AuxIdle
    /\ cpc = [p \in Callers |-> "getRefOuter"]
    /\ tid \in [Callers -> DeviceIDs]
    /\ d1 = [p \in Callers |-> 0]
    /\ d2 = [p \in Callers |-> 0]
    /\ tmp = [p \in Callers |-> 0]
    /\ stored = [p \in Callers |-> FALSE]
    /\ cres = [p \in Callers |-> "none"]
    /\ cache = [k \in DeviceIDs |-> 0]
    /\ refs = [h \in Handles |-> 0]
    /\ hopen = [h \in Handles |-> FALSE]
    /\ hid = [h \in Handles |-> ""]
    /\ nh = 0
    /\ cacheHeld = {}
    /\ devId = deviceID
    /\ secured \in BOOLEAN
    /\ dstate = "RFOTM"
    /\ marked = {}

\* call p moves to label l
CGoto(p, l) == cpc' = [cpc EXCEPT ![p] = l]

\* call p sets the value it returns
CResult(p, r) == cres' = [cres EXCEPT ![p] = r]

handleVars == <<cache, refs, hopen, hid, nh>>
physVars   == <<devId, secured, dstate, marked>>
otherVars  == <<ownAll, discVars, obsVars, auxVars>>

\* d, _, err := c.GetRefDevice(ctx, deviceID); if err != nil { return "", err }
COuterGetRefDevice(p) ==
    /\ cpc[p] = "getRefOuter"
    /\ \/ \E h \in Handles :
            /\ GetRefDevice(tid[p], h)
            /\ d1' = [d1 EXCEPT ![p] = h]
            /\ CGoto(p, "isSecuredOuter")
            /\ UNCHANGED cres
       \/ /\ GetRefDeviceFails(tid[p])
          /\ CResult(p, "err")
          /\ CGoto(p, "done")
          /\ UNCHANGED <<d1, handleVars>>
    /\ UNCHANGED <<tid, d2, tmp, stored, cacheHeld, physVars, otherVars>>
\* a variant of Client.OwnDevice that does not look at d.IsSecured()
COuterIsSecuredIgnored(p) ==
    /\ cpc[p] = "isSecuredOuter"
    /\ CGoto(p, "deviceOwner") /\ UNCHANGED cres
    /\ UNCHANGED <<tid, d1, d2, tmp, stored, handleVars, cacheHeld, physVars, otherVars>>

\* ok := d.IsSecured(); if !ok { return deviceID, nil }
COuterIsSecured(p) ==
    /\ cpc[p] = "isSecuredOuter"
    /\ IF IsSecured(d1[p])
       THEN CGoto(p, "deviceOwner") /\ UNCHANGED cres
       ELSE CGoto(p, "releaseOuter") /\ CResult(p, tid[p])
    /\ UNCHANGED <<tid, d1, d2, tmp, stored, handleVars, cacheHeld, physVars, otherVars>>

\* return c.deviceOwner.OwnDevice(ctx, deviceID, cfg.otmType, c.ownDeviceWithSigners, ...):
\* it fails, or it calls ownDeviceWithSigners
CDeviceOwner(p) ==
    /\ cpc[p] = "deviceOwner"
    /\ \/ CGoto(p, "getRefInner") /\ UNCHANGED cres
       \/ CGoto(p, "releaseOuter") /\ CResult(p, "err")
    /\ UNCHANGED <<tid, d1, d2, tmp, stored, handleVars, cacheHeld, physVars, otherVars>>

\* d, links, err := c.GetRefDevice(ctx, deviceID); if err != nil { return "", err }
CInnerGetRefDevice(p) ==
    /\ cpc[p] = "getRefInner"
    /\ \/ \E h \in Handles :
            /\ GetRefDevice(tid[p], h)
            /\ d2' = [d2 EXCEPT ![p] = h]
            /\ CGoto(p, "isSecuredInner")
            /\ UNCHANGED cres
       \/ /\ GetRefDeviceFails(tid[p])
          /\ CResult(p, "err")
          /\ CGoto(p, "releaseOuter")
          /\ UNCHANGED <<d2, handleVars>>
    /\ UNCHANGED <<tid, d1, tmp, stored, cacheHeld, physVars, otherVars>>

\* ok := d.IsSecured(); if !ok { return d.DeviceID(), nil }
CInnerIsSecured(p) ==
    /\ cpc[p] = "isSecuredInner"
    /\ IF IsSecured(d2[p])
       THEN CGoto(p, "getLinks") /\ UNCHANGED cres
       ELSE CGoto(p, "releaseInner") /\ CResult(p, hid[d2[p]])
    /\ UNCHANGED <<tid, d1, d2, tmp, stored, handleVars, cacheHeld, physVars, otherVars>>

\* if c.disableUDPEndpoints { links, err = d.GetResourceLinks(ctx, endpoints); if err != nil { return "", err } }
CGetResourceLinks(p) ==
    /\ cpc[p] = "getLinks"
    /\ \E disableUDPEndpoints, ok \in BOOLEAN :
        IF disableUDPEndpoints /\ ~ok
        THEN CGoto(p, "releaseInner") /\ CResult(p, "err")
        ELSE CGoto(p, "ownBegin") /\ UNCHANGED cres
    /\ UNCHANGED <<tid, d1, d2, tmp, stored, handleVars, cacheHeld, physVars, otherVars>>

\* err = d.Own(ctx, links, otmClient, opts...), up to the owner read back: the
\* session is dialed and the provisioning status must report RFOTM
COwnBegin(p) ==
    /\ cpc[p] = "ownBegin"
    /\ \E ok \in BOOLEAN :
        IF ok /\ dstate = "RFOTM"
        THEN CGoto(p, "ownMark") /\ UNCHANGED cres
        ELSE CGoto(p, "releaseInner") /\ CResult(p, "err")
    /\ UNCHANGED <<tid, d1, d2, tmp, stored, handleVars, cacheHeld, physVars, otherVars>>

\* d.Own: the write of owned = true, which a device in RFOTM accepts
COwnMark(p) ==
    /\ cpc[p] = "ownMark"
    /\ \E ok \in BOOLEAN :
        IF ok /\ dstate = "RFOTM"
        THEN CGoto(p, "ownFinish") /\ marked' = marked \cup {p} /\ UNCHANGED cres
        ELSE CGoto(p, "releaseInner") /\ CResult(p, "err") /\ UNCHANGED marked
    /\ UNCHANGED <<tid, d1, d2, tmp, stored, handleVars, cacheHeld, devId, secured, dstate,
                   otherVars>>

\* d.Own: the session is closed, the owner's ACL written and the device provisioned
\* to normal operation; the device's identifier can change
COwnFinish(p) ==
    /\ cpc[p] = "ownFinish"
    /\ \/ /\ \E id \in OwnedDeviceIDs(devId) :
               /\ devId' = id
               /\ hid' = [hid EXCEPT ![d2[p]] = id]
          /\ dstate' = "RFNOP"
          /\ CGoto(p, "checkRename")
          /\ UNCHANGED cres
       \/ /\ CGoto(p, "releaseInner")
          /\ CResult(p, "err")
          /\ UNCHANGED <<devId, dstate, hid>>
    /\ UNCHANGED <<tid, d1, d2, tmp, stored, cache, refs, hopen, nh, cacheHeld, secured, marked,
                   otherVars>>

\* if d.DeviceID() != deviceID { ... }; return d.DeviceID(), nil
CCheckRename(p) ==
    /\ cpc[p] = "checkRename"
    /\ IF hid[d2[p]] # tid[p]
       THEN CGoto(p, "removeDevice") /\ UNCHANGED cres
       ELSE CGoto(p, "releaseInner") /\ CResult(p, hid[d2[p]])
    /\ UNCHANGED <<tid, d1, d2, tmp, stored, handleVars, cacheHeld, physVars, otherVars>>
\* a variant that leaves the handle cached under the old identifier
CRemoveDeviceSkipped(p) ==
    /\ cpc[p] = "removeDevice"
    /\ CGoto(p, "tryStore")
    /\ UNCHANGED <<tid, d1, d2, tmp, stored, cres, handleVars, cacheHeld, physVars, otherVars>>

\* c.deviceCache.RemoveDevice(ctx, deviceID, d)
CRemoveDevice(p) ==
    /\ cpc[p] = "removeDevice"
    /\ RemoveDevice(tid[p], d2[p])
    /\ CGoto(p, "tryStore")
    /\ UNCHANGED <<tid, d1, d2, tmp, stored, cres, refs, hopen, hid, nh, cacheHeld, physVars,
                   otherVars>>

\* tmp, stored, err := c.deviceCache.TryStoreDeviceToTemporaryCache(d);
\* if err != nil { return d.DeviceID(), nil }
CTryStore(p) ==
    /\ cpc[p] = "tryStore"
    /\ \/ \E t \in Handles, st \in BOOLEAN :
            /\ TryStoreDeviceToTemporaryCache(d2[p], t, st)
            /\ tmp' = [tmp EXCEPT ![p] = t]
            /\ stored' = [stored EXCEPT ![p] = st]
            /\ CGoto(p, "afterStore")
            /\ UNCHANGED cres
       \/ /\ CGoto(p, "releaseInner")
          /\ CResult(p, hid[d2[p]])
          /\ UNCHANGED <<tmp, stored, cache, refs>>
    /\ UNCHANGED <<tid, d1, d2, hopen, hid, nh, cacheHeld, physVars, otherVars>>

\* a variant in which the call that lost the race releases its own handle
CAfterStoreReleasesOwn(p) ==
    /\ cpc[p] = "afterStore"
    /\ IF stored[p]
       THEN /\ Acquire(d2[p])
            /\ cacheHeld' = cacheHeld \cup {d2[p]}
            /\ UNCHANGED <<hopen, cache>>
       ELSE /\ Release(d2[p])
            /\ UNCHANGED cacheHeld
    /\ CResult(p, hid[d2[p]])
    /\ CGoto(p, "releaseInner")
    /\ UNCHANGED <<tid, d1, d2, tmp, stored, hid, nh, physVars, otherVars>>

\* a variant that keeps the reference it got on the handle that won the race
CAfterStoreKeepsTmp(p) ==
    /\ cpc[p] = "afterStore"
    /\ IF stored[p]
       THEN /\ Acquire(d2[p])
            /\ cacheHeld' = cacheHeld \cup {d2[p]}
       ELSE UNCHANGED <<refs, cacheHeld>>
    /\ CResult(p, hid[d2[p]])
    /\ CGoto(p, "releaseInner")
    /\ UNCHANGED <<tid, d1, d2, tmp, stored, cache, hopen, hid, nh, physVars, otherVars>>

\* if stored { d.Acquire() } else { tmp.Release(ctx) }; return d.DeviceID(), nil
CAfterStore(p) ==
    /\ cpc[p] = "afterStore"
    /\ IF stored[p]
       THEN /\ Acquire(d2[p])
            /\ cacheHeld' = cacheHeld \cup {d2[p]}
            /\ UNCHANGED <<hopen, cache>>
       ELSE /\ Release(tmp[p])
            /\ UNCHANGED cacheHeld
    /\ CResult(p, hid[d2[p]])
    /\ CGoto(p, "releaseInner")
    /\ UNCHANGED <<tid, d1, d2, tmp, stored, hid, nh, physVars, otherVars>>

\* ownDeviceWithSigners: defer d.Release(ctx)
CInnerRelease(p) ==
    /\ cpc[p] = "releaseInner"
    /\ Release(d2[p])
    /\ CGoto(p, "releaseOuter")
    /\ UNCHANGED <<tid, d1, d2, tmp, stored, cres, hid, nh, cacheHeld, physVars, otherVars>>

\* a variant of Client.OwnDevice without the deferred release
COuterReleaseMissing(p) ==
    /\ cpc[p] = "releaseOuter"
    /\ CGoto(p, "done")
    /\ UNCHANGED <<tid, d1, d2, tmp, stored, cres, handleVars, cacheHeld, physVars, otherVars>>

\* Client.OwnDevice: defer d.Release(ctx)
COuterRelease(p) ==
    /\ cpc[p] = "releaseOuter"
    /\ Release(d1[p])
    /\ CGoto(p, "done")
    /\ UNCHANGED <<tid, d1, d2, tmp, stored, cres, hid, nh, cacheHeld, physVars, otherVars>>

NextC ==
    \E p \in Callers :
        \/ COuterGetRefDevice(p)
        \/ COuterIsSecured(p)
        \/ CDeviceOwner(p)
        \/ CInnerGetRefDevice(p)
        \/ CInnerIsSecured(p)
        \/ CGetResourceLinks(p)
        \/ COwnBegin(p)
        \/ COwnMark(p)
        \/ COwnFinish(p)
        \/ CCheckRename(p)
        \/ CRemoveDevice(p)
        \/ CTryStore(p)
        \/ CAfterStore(p)
        \/ CInnerRelease(p)
        \/ COuterRelease(p)

SpecC == InitC /\ [][NextC]_vars

\* call p holds the reference Client.OwnDevice got from GetRefDevice
HoldsOuter(p) ==
    cpc[p] \in {"isSecuredOuter", "deviceOwner", "getRefInner", "isSecuredInner", "getLinks",
                "ownBegin", "ownMark", "ownFinish", "checkRename", "removeDevice", "tryStore",
                "afterStore", "releaseInner", "releaseOuter"}

\* call p holds the reference ownDeviceWithSigners got from GetRefDevice
HoldsInner(p) ==
    cpc[p] \in {"isSecuredInner", "getLinks", "ownBegin", "ownMark", "ownFinish", "checkRename",
                "removeDevice", "tryStore", "afterStore", "releaseInner"}

\* call p holds the reference TryStoreDeviceToTemporaryCache handed out with tmp
HoldsTmp(p) == cpc[p] = "afterStore" /\ ~stored[p]

\* d.Own of call p is running
OwnInFlight(p) == cpc[p] \in {"ownBegin", "ownMark", "ownFinish"}

AllCallsDone == \A p \in Callers : cpc[p] = "done"

(***************************************************************************)
(* C13. A handle's connection is open exactly as long as its reference     *)
(* count is above zero, and a call that holds a reference (an ownership    *)
(* transfer in flight holds two, the outer and the inner one) finds the    *)
(* connection open whatever the other calls release.                       *)
(***************************************************************************)
C13_ClosedOnlyAtZero == \A h \in Handles : hopen[h] <=> refs[h] > 0

C13_HolderKeepsOpen ==
    \A p \in Callers :
        /\ HoldsOuter(p) => hopen[d1[p]]
        /\ HoldsInner(p) => hopen[d2[p]]
        /\ OwnInFlight(p) => refs[d2[p]] >= 2

C13_ClosedAtZeroOnly == C13_ClosedOnlyAtZero /\ C13_HolderKeepsOpen

C13_Witness ==
    \E p, q \in Callers :
        /\ OwnInFlight(p)
        /\ cpc[q] = "done" /\ d2[q] = d2[p]
        /\ hopen[d2[p]]

(***************************************************************************)
(* C14. Reference counting: when every call has returned and the cache     *)
(* holds no reference of its own, as many references were released as were *)
(* acquired: every count is zero and no connection is open; no count ever  *)
(* goes below zero.                                                        *)
(***************************************************************************)
C14_AcquireReleaseBalance ==
    /\ \A h \in Handles : refs[h] >= 0
    /\ (AllCallsDone /\ cacheHeld = {}) => \A h \in Handles : refs[h] = 0 /\ ~hopen[h]

C14_Witness ==
    /\ AllCallsDone /\ cacheHeld = {}
    /\ nh = 1
    /\ \A p \in Callers : d1[p] = 1 /\ d2[p] = 1
    /\ refs[1] = 0 /\ ~hopen[1]

(***************************************************************************)
(* C15. As claimed: the cache holds at most one live connection per        *)
(* identifier, and at no moment two live cached connections to the same    *)
(* physical device (every handle of this model connects to the one         *)
(* device).                                                                *)
(***************************************************************************)
C15_LiveCached == {h \in Handles : hopen[h] /\ \E k \in DeviceIDs : cache[k] = h}

C15_NoDuplicateConnection == Cardinality(C15_LiveCached) <= 1

(***************************************************************************)
(* C16. Every reference a call obtained is released when it returns: the   *)
(* count of each handle is the number of references the calls still        *)
(* running hold, plus one for the cache when the renamed handle was        *)
(* stored; a call that has returned accounts for none.                     *)
(***************************************************************************)
C16_Held(p, h) ==
    (IF HoldsOuter(p) /\ d1[p] = h THEN 1 ELSE 0)
    + (IF HoldsInner(p) /\ d2[p] = h THEN 1 ELSE 0)
    + (IF HoldsTmp(p) /\ tmp[p] = h THEN 1 ELSE 0)

C16_HeldByAll(h) ==
    LET sum[n \in 0..MaxCallers] == IF n = 0 THEN 0 ELSE sum[n - 1] + C16_Held(n, h)
    IN  sum[MaxCallers]

C16_ReleasedOnEveryPath ==
    /\ \A h \in Handles : refs[h] = C16_HeldByAll(h) + (IF h \in cacheHeld THEN 1 ELSE 0)
    /\ \A h \in cacheHeld : \E p \in Callers : stored[p] /\ d2[p] = h

C16_Witness ==
    \E p \in Callers :
        /\ cpc[p] = "done" /\ stored[p]
        /\ \A q \in Callers : cpc[q] = "done"
        /\ refs[d2[p]] = 1
        /\ \E q \in Callers : cres[q] = "err" /\ d1[q] # 0

(***************************************************************************)
(* C17. As claimed: of the concurrent calls racing on one device, at most  *)
(* one has its owned = true write accepted.                                *)
(***************************************************************************)
C17_OneWinner == Cardinality(marked) <= 1

(***************************************************************************)
(* C18. As claimed: once ProvisionOwnerCredentials has succeeded (the      *)
(* identity certificate and every CA certificate were written), none of    *)
(* the asymmetric-signing-with-certificate credentials of usage CERT or    *)
(* TRUST_CA that the device held before the call is left on the device.    *)
(***************************************************************************)
C18_Provisioned == Succeeded("setIdentityCredential") /\ caIdx = Len(CAs)

C18_PriorMaterial == {c.data : c \in {PriorCert, PriorAnchor, PriorOwnCA, PriorPsk}}

C18_PriorCredentialsDeleted ==
    C18_Provisioned =>
        \A c \in creds : ~(isSupersededCredential(c) /\ c.data \in C18_PriorMaterial)

(***************************************************************************)
(* Observations: Device.observeResource, Device.StopObservingResource,     *)
(* observation.Stop and the close handler, src/local/client.go.  One       *)
(* goroutine observes, 1..MaxStoppers goroutines each stop an observation. *)
(***************************************************************************)
MaxObs      == 2
MaxStoppers == 2

Stoppers == 1..MaxStoppers

\* an observation id that observeResource never returned
UnknownObservation == 0

\* client.UnregisterCloseHandler(onCloseID)
UnregisterCloseHandler(hs, onCloseID) == hs \ {onCloseID}

\* o.onCloseID: zero until o.Set stored the id RegisterCloseHandler returned
onCloseIDOf(id, isSet) == IF isSet THEN id ELSE 0

InitO ==
    /\ OwnIdle
    /\ DiscoverIdle
    /\ CacheIdle
    /\ AuxIdle
    /\ opc = "connect"
    /\ oid = 0
    /\ ores = "none"
    /\ issued = 0
    /\ observations = {}
    /\ active = {}
    /\ closeHandlers = {}
    /\ connected = FALSE
    /\ closing = {}
    /\ spc = [s \in Stoppers |-> "load"]
    /\ sid = [s \in Stoppers |-> UnknownObservation]
    /\ sres = [s \in Stoppers |-> "none"]
    /\ sknown = [s \in Stoppers |-> FALSE]
    /\ stoppedOk = {}
    /\ handled = {}
    /\ late = {}
    /\ ofailed = {}
    /\ apc = "idle"
    /\ aobs = <<>>
    /\ acur = 0
    /\ aerrs = 0
    /\ atCall = {}
    /\ ares = "none"

\* the device before the first observeResource call, with one stopObservations
\* call to come and no separate StopObservingResource caller
InitS ==
    /\ OwnIdle
    /\ DiscoverIdle
    /\ CacheIdle
    /\ AuxIdle
    /\ opc = "connect"
    /\ oid = 0
    /\ ores = "none"
    /\ issued = 0
    /\ observations = {}
    /\ active = {}
    /\ closeHandlers = {}
    /\ connected = FALSE
    /\ closing = {}
    /\ spc = [s \in Stoppers |-> "done"]
    /\ sid = [s \in Stoppers |-> UnknownObservation]
    /\ sres = [s \in Stoppers |-> "none"]
    /\ sknown = [s \in Stoppers |-> FALSE]
    /\ stoppedOk = {}
    /\ handled = {}
    /\ late = {}
    /\ ofailed = {}
    /\ apc = "range"
    /\ aobs = <<>>
    /\ acur = 0
    /\ aerrs = 0
    /\ atCall = {}
    /\ ares = "none"

stopVars  == <<spc, sid, sres, sknown, stoppedOk>>
eventVars == <<handled, late>>
sweepVars == <<apc, aobs, acur, aerrs, atCall, ares>>
notObs    == <<ownAll, discVars, cacheVars, auxVars>>

\* client, err := d.connect(ctx, href); id, err := uuid.NewV4(); o := &observation{...};
\* onCloseID := client.RegisterCloseHandler(...)
ObserveConnect ==
    /\ opc = "connect"
    /\ issued < MaxObs
    /\ \/ /\ ores' = "err"
          /\ UNCHANGED <<opc, oid, issued, closeHandlers, connected>>
       \/ /\ connected' = TRUE
          /\ issued' = issued + 1
          /\ oid' = issued + 1
          /\ closeHandlers' = closeHandlers \cup {issued + 1}
          /\ opc' = "observe"
          /\ UNCHANGED ores
    /\ UNCHANGED <<observations, active, closing, stopVars, eventVars, notObs, sweepVars, ofailed>>

\* obs, err := client.Observe(ctx, href, codec, &h, options...);
\* if err != nil { client.UnregisterCloseHandler(o.onCloseID); return "", err }
ObserveObserve ==
    /\ opc = "observe"
    /\ \E ok \in BOOLEAN :
        IF ok /\ connected
        THEN /\ active' = active \cup {oid}
             /\ opc' = "store"
             /\ UNCHANGED <<oid, ores, closeHandlers, ofailed>>
        ELSE /\ closeHandlers' = UnregisterCloseHandler(closeHandlers, onCloseIDOf(oid, FALSE))
             /\ ores' = "err"
             /\ opc' = "connect"
             /\ oid' = 0
             /\ ofailed' = ofailed \cup {oid}
             /\ UNCHANGED active
    /\ UNCHANGED <<issued, observations, connected, closing, stopVars, eventVars, notObs, sweepVars>>

\* o.Set(onCloseID, obs); d.observations.Store(o.id, o); return o.id, nil
ObserveStore ==
    /\ opc = "store"
    /\ observations' = observations \cup {oid}
    /\ ores' = "id"
    /\ opc' = "connect"
    /\ oid' = 0
    /\ UNCHANGED <<issued, active, closeHandlers, connected, closing, stopVars, eventVars, notObs, sweepVars, ofailed>>

\* StopObservingResource(ctx, observationID): v, ok := d.observations.Load(observationID);
\* if !ok { return fmt.Errorf("unknown observation %s", observationID) }
StopLoad(s) ==
    /\ spc[s] = "load"
    /\ \E id \in 0..issued :
        /\ sid' = [sid EXCEPT ![s] = id]
        /\ sknown' = [sknown EXCEPT ![s] = id # UnknownObservation /\ id \notin stoppedOk]
        /\ IF id \in observations
           THEN /\ spc' = [spc EXCEPT ![s] = "delete"]
                /\ UNCHANGED sres
           ELSE /\ spc' = [spc EXCEPT ![s] = "done"]
                /\ sres' = [sres EXCEPT ![s] = "unknown"]
    /\ UNCHANGED <<opc, oid, ores, issued, observations, active, closeHandlers, connected,
                   closing, stoppedOk, eventVars, notObs, sweepVars, ofailed>>

\* a variant that leaves the observation in d.observations
StopDeleteMissing(s) ==
    /\ spc[s] = "delete"
    /\ spc' = [spc EXCEPT ![s] = "stop"]
    /\ UNCHANGED <<opc, oid, ores, issued, observations, active, closeHandlers, connected,
                   closing, sid, sres, sknown, stoppedOk, eventVars, notObs, sweepVars, ofailed>>

\* d.observations.Delete(observationID)
StopDelete(s) ==
    /\ spc[s] = "delete"
    /\ observations' = observations \ {sid[s]}
    /\ spc' = [spc EXCEPT ![s] = "stop"]
    /\ UNCHANGED <<opc, oid, ores, issued, active, closeHandlers, connected,
                   closing, sid, sres, sknown, stoppedOk, eventVars, notObs, sweepVars, ofailed>>

\* err := o.Stop(ctx): o.client.UnregisterCloseHandler(onCloseID); obs.CancelWithContext(ctx);
\* a cancel that fails can have ended the notifications or not
StopStop(s) ==
    /\ spc[s] = "stop"
    /\ closeHandlers' = UnregisterCloseHandler(closeHandlers, onCloseIDOf(sid[s], TRUE))
    /\ \E ok \in BOOLEAN :
        IF ok /\ connected
        THEN /\ active' = active \ {sid[s]}
             /\ sres' = [sres EXCEPT ![s] = "nil"]
             /\ stoppedOk' = stoppedOk \cup {sid[s]}
        ELSE /\ active' \in {active, active \ {sid[s]}}
             /\ sres' = [sres EXCEPT ![s] = "could not cancel"]
             /\ UNCHANGED stoppedOk
    /\ spc' = [spc EXCEPT ![s] = "done"]
    /\ UNCHANGED <<opc, oid, ores, issued, observations, connected, closing, sid, sknown,
                   eventVars, notObs, sweepVars, ofailed>>

\* the connection is closed: no notification arrives any more and the client
\* calls the close handlers registered on it
CloseConnection ==
    /\ connected
    /\ connected' = FALSE
    /\ active' = {}
    /\ closing' = closing \cup closeHandlers
    /\ closeHandlers' = {}
    /\ UNCHANGED <<opc, oid, ores, issued, observations, stopVars, eventVars, notObs, sweepVars, ofailed>>

\* the close handler of observation id: o.handler.OnClose(); obsCtx is cancelled;
\* d.StopObservingResource(obsCtx, o.id), whose result is dropped
CloseHandler(id) ==
    /\ id \in closing
    /\ closing' = closing \ {id}
    /\ observations' = observations \ {id}
    /\ UNCHANGED <<opc, oid, ores, issued, active, closeHandlers, connected, stopVars,
                   eventVars, notObs, sweepVars, ofailed>>

\* observationHandler.Handle / Error: a notification of observation id reaches its handler
DeliverEvent(id) ==
    /\ id \in active
    /\ handled' = handled \cup {id}
    /\ late' = IF id \in stoppedOk THEN late \cup {id} ELSE late
    /\ UNCHANGED <<opc, oid, ores, issued, observations, active, closeHandlers, connected,
                   closing, stopVars, notObs, sweepVars, ofailed>>
\* d.observations.Range(func(key, value interface{}) bool { obs = append(obs, key); return false }):
\* sync.Map.Range stops at the first entry whose callback returns false, so the
\* callback runs for at most one entry, in no specified order
RangeCollected(entries) ==
    IF entries = {} THEN {<<>>} ELSE {<<id>> : id \in entries}

\* stopObservations(ctx): obs := make([]string, 0, 12); d.observations.Range(...)
StopObservationsRange ==
    /\ apc = "range"
    /\ atCall' = observations
    /\ aobs' \in RangeCollected(observations)
    /\ apc' = "loop"
    /\ UNCHANGED <<opc, oid, ores, issued, observations, active, closeHandlers, connected,
                   closing, stopVars, eventVars, notObs, ofailed, acur, aerrs, ares>>

\* for _, observationID := range obs { ... }; if len(errors) > 0 { return fmt.Errorf("%v", errors) };
\* return nil
StopObservationsLoop ==
    /\ apc = "loop"
    /\ IF aobs = <<>>
       THEN /\ apc' = "done"
            /\ ares' = IF aerrs > 0 THEN "err" ELSE "nil"
            /\ UNCHANGED <<aobs, acur>>
       ELSE /\ acur' = Head(aobs)
            /\ aobs' = Tail(aobs)
            /\ apc' = "load"
            /\ UNCHANGED ares
    /\ UNCHANGED <<opc, oid, ores, issued, observations, active, closeHandlers, connected,
                   closing, stopVars, eventVars, notObs, ofailed, aerrs, atCall>>

\* err := d.StopObservingResource(ctx, observationID): d.observations.Load(observationID);
\* an unknown observation is an error, appended to errors
StopObservationsLoad ==
    /\ apc = "load"
    /\ IF acur \in observations
       THEN /\ apc' = "delete"
            /\ UNCHANGED <<acur, aerrs>>
       ELSE /\ aerrs' = aerrs + 1
            /\ acur' = 0
            /\ apc' = "loop"
    /\ UNCHANGED <<opc, oid, ores, issued, observations, active, closeHandlers, connected,
                   closing, stopVars, eventVars, notObs, ofailed, aobs, atCall, ares>>

\* d.observations.Delete(observationID) of that StopObservingResource call
StopObservationsDelete ==
    /\ apc = "delete"
    /\ observations' = observations \ {acur}
    /\ apc' = "stop"
    /\ UNCHANGED <<opc, oid, ores, issued, active, closeHandlers, connected,
                   closing, stopVars, eventVars, notObs, ofailed, aobs, acur, aerrs, atCall, ares>>

\* err := o.Stop(ctx) of that StopObservingResource call; if err != nil { errors = append(errors, err) }
StopObservationsStop ==
    /\ apc = "stop"
    /\ closeHandlers' = UnregisterCloseHandler(closeHandlers, onCloseIDOf(acur, TRUE))
    /\ \E ok \in BOOLEAN :
        IF ok /\ connected
        THEN /\ active' = active \ {acur}
             /\ stoppedOk' = stoppedOk \cup {acur}
             /\ UNCHANGED aerrs
        ELSE /\ active' \in {active, active \ {acur}}
             /\ aerrs' = aerrs + 1
             /\ UNCHANGED stoppedOk
    /\ acur' = 0
    /\ apc' = "loop"
    /\ UNCHANGED <<opc, oid, ores, issued, observations, connected, closing, spc, sid, sres,
                   sknown, eventVars, notObs, ofailed, aobs, atCall, ares>>

NextO ==
    \/ ObserveConnect
    \/ ObserveObserve
    \/ ObserveStore
    \/ \E s \in Stoppers : StopLoad(s)
    \/ \E s \in Stoppers : StopDelete(s)
    \/ \E s \in Stoppers : StopStop(s)
    \/ CloseConnection
    \/ \E id \in 1..MaxObs : CloseHandler(id)
    \/ \E id \in 1..MaxObs : DeliverEvent(id)

SpecO == InitO /\ [][NextO]_vars

NextS ==
    \/ ObserveConnect
    \/ ObserveObserve
    \/ ObserveStore
    \/ StopObservationsRange
    \/ StopObservationsLoop
    \/ StopObservationsLoad
    \/ StopObservationsDelete
    \/ StopObservationsStop
    \/ CloseConnection
    \/ \E id \in 1..MaxObs : CloseHandler(id)
    \/ \E id \in 1..MaxObs : DeliverEvent(id)

SpecS == InitS /\ [][NextS]_vars

(***************************************************************************)
(* C19. After a StopObservingResource call returned nil for an id, no      *)
(* event of that observation reaches its handler and the id is not in      *)
(* d.observations; a stop made after that with the same id, or made with   *)
(* an id that was never issued, returns the 'unknown observation' error,   *)
(* and a stop that returns this error changes nothing.                     *)
(***************************************************************************)
C19_Silent == late = {}

C19_Unregistered == \A id \in stoppedOk : id \notin observations

C19_SecondStopUnknown ==
    \A s \in Stoppers : (spc[s] # "load" /\ ~sknown[s]) => (spc[s] = "done" /\ sres[s] = "unknown")

C19_UnknownChangesNothing ==
    \A s \in Stoppers :
        (sres[s] # "unknown" /\ sres'[s] = "unknown")
            => UNCHANGED <<observations, active, closeHandlers, connected, closing, stoppedOk>>

C19_StoppedStaysStopped ==
    /\ [](C19_Silent /\ C19_Unregistered /\ C19_SecondStopUnknown)
    /\ [][C19_UnknownChangesNothing]_vars

C19_Witness ==
    \E s, t \in Stoppers :
        /\ s # t
        /\ sres[s] = "nil" /\ sres[t] = "unknown"
        /\ sid[s] = sid[t] /\ sid[s] \in handled
        /\ sid[s] \notin active

(***************************************************************************)
(* C20. State validation gating: when the provisioning status the device   *)
(* reports has pending = true, or an operational state other than RFOTM,   *)
(* or does not list the client directed mode as supported, OwnDevice       *)
(* sends no operational-mode write, no credential read, delete or write,   *)
(* no deviceOwner write, no owned write and no ACL write, and once it has  *)
(* read that document it returns the error of the first failed check with  *)
(* the read as its last request.                                           *)
(***************************************************************************)
C20_Invalid == pstat.pending \/ pstat.state # "RFOTM" \/ ~pstat.cd

C20_GatedRequests ==
    {"updateProvisionState", "getCredentials", "deleteCredential", "setIdentityCredential",
     "setCaCredential", "setDeviceOwner", "setDeviceOwned", "setOwnerAcl"}

C20_StateValidationGates ==
    C20_Invalid
        => /\ \A op \in C20_GatedRequests : ~Called(op)
           /\ pstat.mode = "" /\ acl = {}
           /\ Succeeded("getProvisionState")
                => (pc = "done" /\ LastCall = "getProvisionState"
                    /\ result = provisionStateError(pstat))

C20_Witness ==
    /\ ~pstat.pending /\ pstat.state = "RFOTM" /\ ~pstat.cd
    /\ Succeeded("getProvisionState")
    /\ pc = "done" /\ result.kind = "modeUnsupported"

(***************************************************************************)
(* C21. No compensating rollback: when a step after the owned = true write *)
(* fails (the resource owner write on pstat, the ACL write, ProvisionDevice*)
(* or its Close), OwnDevice returns an error with that step as its last    *)
(* request, and what the earlier steps applied is still on the device:     *)
(* owned = true, deviceOwner and resource owner = the owner identity, the  *)
(* client directed mode, the identity credential and the trust anchors.    *)
(***************************************************************************)
C21_LateSteps == {"setOwnerProvisionState", "setOwnerAcl", "provisionDevice", "provisionClose"}

C21_LateFailure == Succeeded("setDeviceOwned") /\ \E op \in C21_LateSteps : Failed(op)

C21_AppliedStateKept ==
    /\ doxm.owned /\ doxm.deviceOwner = sdkID /\ doxm.rowner = sdkID
    /\ pstat.mode = "CLIENT_DIRECTED"
    /\ \E c \in creds : c.subject = deviceID /\ c.usage = CredentialUsage_CERT /\ c.data = signedCsr
    /\ \A k \in 1..Len(CAs) :
         \E c \in creds : c.subject = sdkID /\ c.usage = CredentialUsage_TRUST_CA /\ c.data = CAs[k]
    /\ Succeeded("setOwnerProvisionState") => pstat.rowner = sdkID
    /\ Succeeded("setOwnerAcl") => setOwnerAcl(sdkID) \in acl

C21_NoRollback ==
    C21_LateFailure
        => /\ pc = "done" /\ IsError(result)
           /\ LastCall \in C21_LateSteps /\ ~log[Len(log)].ok
           /\ C21_AppliedStateKept

C21_Witness ==
    /\ Succeeded("setDeviceOwned") /\ Succeeded("setOwnerProvisionState") /\ Failed("setOwnerAcl")
    /\ pc = "done" /\ result = Err("setOwnerAcl")
    /\ doxm.owned /\ Len(CAs) > 0

(***************************************************************************)
(* C22. What ownDeviceFindClient returns: when the handler captured a      *)
(* device with the requested identifier, that client and no error, also    *)
(* when Discover returned an error or the handler recorded one; when no    *)
(* device was captured, Discover's error if it returned one, else the      *)
(* first error the handler recorded, else 'device not found'.  It never    *)
(* returns a nil client together with a nil error.                         *)
(***************************************************************************)
C22_ErrorResponses == {n \in DOMAIN responses : responses[n].kind = "error"}

C22_FirstHandlerError ==
    IF C22_ErrorResponses = {} THEN 0
    ELSE CHOOSE n \in C22_ErrorResponses : \A m \in C22_ErrorResponses : n <= m

C22_Captured == \E n \in DOMAIN responses : responses[n].kind = "match"

C22_FindClientResult ==
    fpc = "returned"
        => /\ C22_Captured
                => fres.client # 0 /\ responses[fres.client].kind = "match" /\ fres.err = "nil"
           /\ (~C22_Captured /\ derr = "error") => fres = [client |-> 0, err |-> "discover"]
           /\ (~C22_Captured /\ derr = "nil" /\ C22_FirstHandlerError # 0)
                => (fres = [client |-> 0, err |-> "handler"] /\ hErr = C22_FirstHandlerError)
           /\ (~C22_Captured /\ derr = "nil" /\ C22_FirstHandlerError = 0)
                => fres = [client |-> 0, err |-> "device not found"]
           /\ ~(fres.client = 0 /\ fres.err = "nil")

C22_Witness ==
    /\ fpc = "returned" /\ C22_Captured
    /\ derr = "error" /\ hErr # 0
    /\ fres.client # 0 /\ fres.err = "nil"

(***************************************************************************)
(* C23. Credential supersession ordering: in ProvisionOwnerCredentials     *)
(* every delete of a prior credential comes before the write of the new    *)
(* identity credential, and that write comes only after the credential     *)
(* read succeeded and every credential the delete loop selected was        *)
(* deleted; when the credential read or a delete fails, neither the        *)
(* identity credential nor a trust anchor is written.                      *)
(***************************************************************************)
C23_DeletesBeforeWrite ==
    \A i, j \in DOMAIN log :
        (log[i].op = "deleteCredential" /\ log[j].op \in {"setIdentityCredential", "setCaCredential"})
            => i < j

C23_WriteAfterSupersession ==
    Called("setIdentityCredential")
        => /\ Succeeded("getCredentials")
           /\ ~Failed("deleteCredential")
           /\ delQueue = <<>>
           /\ \A c \in CredentialsOf(creds, deviceID) :
                isSupersededCredential(c) => c.data = signedCsr

C23_NoWriteAfterFailure ==
    (Failed("getCredentials") \/ Failed("deleteCredential"))
        => /\ ~Called("setIdentityCredential") /\ ~Called("setCaCredential")
           /\ pc = "done" /\ IsError(result)
           /\ LastCall \in {"getCredentials", "deleteCredential"}

C23_SupersessionOrder ==
    C23_DeletesBeforeWrite /\ C23_WriteAfterSupersession /\ C23_NoWriteAfterFailure

C23_Witness ==
    /\ Succeeded("deleteCredential") /\ Failed("deleteCredential")
    /\ pc = "done" /\ result = Err("deleteCredential")
    /\ \E c \in creds : c = PriorOwnCA

(***************************************************************************)
(* C24. When reading the CSR fails, when the CSR is tagged PEM and has no  *)
(* valid PEM framing, or when the signer fails, ProvisionOwnerCredentials  *)
(* returns an error and has sent no read, delete or write to the           *)
(* credential resource: the credential set is the one the device had.  A   *)
(* CSR with invalid PEM framing is never handed to the signer.             *)
(***************************************************************************)
C24_BrokenPem == [encoding |-> "PEM", data |-> <<"-----BEGIN", "csr">>]

C24_CsrStepFailed == Failed("getCsr") \/ Failed("encodeToDer") \/ Failed("sign")

C24_CredentialRequests ==
    {"getCredentials", "deleteCredential", "setIdentityCredential", "setCaCredential",
     "hackSetCredential", "hackDeleteCredential"}

C24_NoCredentialChange ==
    C24_CsrStepFailed
        => /\ pc = "done" /\ IsError(result)
           /\ LastCall \in {"getCsr", "encodeToDer", "sign"}
           /\ \A op \in C24_CredentialRequests : ~Called(op)
           /\ creds \in PriorCredentialSets

C24_InvalidPemNotSigned ==
    (csr = C24_BrokenPem /\ Called("encodeToDer"))
        => (Failed("encodeToDer") /\ ~Called("sign") /\ result = Err("encodeToDer"))

C24_ValidCsrIsDer ==
    (Called("encodeToDer") /\ csr # C24_BrokenPem)
        => (Succeeded("encodeToDer") /\ der = <<"csr">>)

C24_CsrFailureIsClean ==
    C24_NoCredentialChange /\ C24_InvalidPemNotSigned /\ C24_ValidCsrIsDer

C24_Witness ==
    /\ csr = C24_BrokenPem /\ Failed("encodeToDer")
    /\ pc = "done" /\ result = Err("encodeToDer")
    /\ creds = {PriorCert, PriorOwnCA}

(***************************************************************************)
(* C25. A ProvisionOwnerCredentials call that succeeds has written exactly *)
(* one identity credential (subject = device identifier, usage = CERT,     *)
(* data = the signed certificate) and after it exactly one trust anchor    *)
(* per certificate of otmc.CAs, in the order of otmc.CAs, each with        *)
(* subject = owner identifier.  When the k-th trust anchor write fails the *)
(* call returns an error, the identity credential and the first k-1 trust  *)
(* anchors are on the device and no further trust anchor is written.       *)
(***************************************************************************)
C25_IsCredentialWrite(e) == e.op \in {"setIdentityCredential", "setCaCredential"}

C25_Writes == SelectSeq(log, C25_IsCredentialWrite)

C25_Identity == {c \in creds : c.subject = deviceID /\ c.usage = CredentialUsage_CERT}

C25_Anchors == {c \in creds : c.subject = sdkID /\ c.usage = CredentialUsage_TRUST_CA}

C25_AnchorsAre(k) ==
    /\ Cardinality(C25_Anchors) = k
    /\ \A j \in 1..k :
         \E c \in C25_Anchors : c.data = CAs[j] /\ c.type = ASYMMETRIC_SIGNING_WITH_CERTIFICATE
    /\ \A c, e \in C25_Anchors :
         \A i, j \in 1..k : (c.data = CAs[i] /\ e.data = CAs[j] /\ i < j) => c.id < e.id

C25_IdentityIsNew ==
    /\ Cardinality(C25_Identity) = 1
    /\ \A c \in C25_Identity :
         c.data = signedCsr /\ c.type = ASYMMETRIC_SIGNING_WITH_CERTIFICATE
    /\ \A c \in C25_Identity, e \in C25_Anchors : c.id < e.id

C25_WritesInOrder ==
    \A n \in DOMAIN C25_Writes :
        /\ (n = 1) = (C25_Writes[n].op = "setIdentityCredential")
        /\ n > 1 => C25_Writes[n].arg = n - 1 /\ C25_Writes[n - 1].ok

C25_Succeeded == Called("isIotivity")

C25_OneIdentityThenAnchors ==
    /\ C25_WritesInOrder
    /\ C25_Succeeded
         => /\ Len(C25_Writes) = 1 + Len(CAs)
            /\ \A n \in DOMAIN C25_Writes : C25_Writes[n].ok
            /\ C25_IdentityIsNew /\ C25_AnchorsAre(Len(CAs))
    /\ \A k \in 1..Len(CAs) :
         (\E i \in DOMAIN log : log[i] = [op |-> "setCaCredential", arg |-> k, ok |-> FALSE])
            => /\ pc = "done" /\ result = Err("setCaCredential")
               /\ LastCall = "setCaCredential"
               /\ C25_IdentityIsNew /\ C25_AnchorsAre(k - 1)

C25_Witness ==
    /\ Len(CAs) = 2
    /\ \E i \in DOMAIN log : log[i] = [op |-> "setCaCredential", arg |-> 2, ok |-> FALSE]
    /\ pc = "done" /\ Cardinality(C25_Anchors) = 1

(***************************************************************************)
(* C26. iotivityHack runs if and only if the probe answered with the       *)
(* generic CBOR content format: after a probe that saw the OCF content     *)
(* format none of the three operations of iotivityHack (owner write with   *)
(* hackId, throwaway credential write, throwaway credential delete) is     *)
(* sent; after a probe that saw the generic format the next request is the *)
(* first of them; a probe that failed, answered with another code, with no *)
(* content format or with any other format makes OwnDevice return an error *)
(* before the deviceOwner write.                                           *)
(***************************************************************************)
C26_HackCalls == {"hackSetDeviceOwner", "hackSetCredential", "hackDeleteCredential"}

C26_Legacy == Succeeded("isIotivity") /\ contentFormat = AppCBOR

C26_Compliant == Succeeded("isIotivity") /\ contentFormat = AppOcfCbor

C26_HackOnlyIfLegacy == (\E op \in C26_HackCalls : Called(op)) => C26_Legacy

C26_HackIfLegacy ==
    C26_Legacy
        => /\ pc = "hackSetDeviceOwner" \/ Called("hackSetDeviceOwner")
           /\ Called("setDeviceOwner") => Succeeded("hackDeleteCredential")

C26_CompliantSkips ==
    C26_Compliant
        => /\ \A op \in C26_HackCalls : ~Called(op)
           /\ pc = "setDeviceOwner" \/ Called("setDeviceOwner")
           /\ doxm.deviceOwner # hackId /\ CredentialsOf(creds, hackId) = {}

C26_ProbeErrorAborts ==
    /\ Called("isIotivity")
         => (Succeeded("isIotivity") <=> contentFormat \in {AppCBOR, AppOcfCbor})
    /\ Failed("isIotivity")
         => /\ pc = "done" /\ result = Err("isIotivity") /\ LastCall = "isIotivity"
            /\ ~Called("setDeviceOwner")
            /\ \A op \in C26_HackCalls : ~Called(op)

C26_PatchIffLegacy ==
    C26_HackOnlyIfLegacy /\ C26_HackIfLegacy /\ C26_CompliantSkips /\ C26_ProbeErrorAborts

C26_Witness ==
    /\ C26_Compliant /\ Succeeded("setDeviceOwner")
    /\ \A op \in C26_HackCalls : ~Called(op)

(***************************************************************************)
(* C27. iotivityHack leaves no trace after an OwnDevice call that ran it   *)
(* and returned nil: deviceOwner is the owner identifier, not hackId, and  *)
(* no credential with subject hackId is on the device.  hackId is          *)
(* deviceOwner only after the first write of iotivityHack was accepted and *)
(* before a deviceOwner write with the owner identifier took effect: it is *)
(* never there when the read back confirmed the owner, when the owned =    *)
(* true write is sent or when OwnDevice returns nil.                       *)
(***************************************************************************)
C27_HackRan == Succeeded("hackSetDeviceOwner")

C27_NoTraceAfterSuccess ==
    (C27_HackRan /\ pc = "done" /\ result = Nil)
        => /\ doxm.deviceOwner = sdkID /\ doxm.owned
           /\ CredentialsOf(creds, hackId) = {}
           /\ Succeeded("hackSetCredential") /\ Succeeded("hackDeleteCredential")

C27_TemporaryOwnerInside ==
    doxm.deviceOwner = hackId
        => /\ C27_HackRan
           /\ ~Called("setDeviceOwned")
           /\ ~(Succeeded("verifyOwner") /\ verifyOwner = sdkID)
           /\ pc = "done" => IsError(result)
           /\ Succeeded("verifyOwner") => result = Err("ownerMismatch")

C27_TemporaryCredentialInside ==
    CredentialsOf(creds, hackId) # {}
        => /\ Succeeded("hackSetCredential") /\ ~Succeeded("hackDeleteCredential")
           /\ ~Called("setDeviceOwner")

C27_PatchLeavesNoTrace ==
    C27_NoTraceAfterSuccess /\ C27_TemporaryOwnerInside /\ C27_TemporaryCredentialInside

C27_Witness ==
    /\ C27_HackRan /\ pc = "done" /\ result = Nil
    /\ doxm.deviceOwner = sdkID /\ CredentialsOf(creds, hackId) = {}
    /\ creds # {}

(***************************************************************************)
(* C28. Once otmClient.Dial has succeeded, the session it returned is      *)
(* closed on every exit path of OwnDevice: when OwnDevice has returned,    *)
(* with nil or with an error of any later step, the session is not open.   *)
(***************************************************************************)
C28_SessionClosedOnReturn == (Succeeded("dial") /\ pc = "done") => ~tlsOpen

\* what the code does keep: the session is closed on every path that gets past the
\* owned = true write, and on no path that returns before it
C28_ClosedAfterOwnedOnly ==
    (Succeeded("dial") /\ pc = "done") => (tlsOpen <=> ~Succeeded("setDeviceOwned"))

(***************************************************************************)
(* C29. Rename accounting in ownDeviceWithSigners, for a call whose device *)
(* identifier changed during Own: its handle is out of the cache under the *)
(* old identifier before the staging call; when the staging call stored    *)
(* the handle, the handle has one reference more, held for the cache, and  *)
(* is still open and cached under the new identifier after the call has    *)
(* returned; when it did not, the call gives back the reference it got on  *)
(* the handle cached already, its own handle stays open until its own      *)
(* deferred releases, the cache holds no reference on its behalf, and when *)
(* every call has returned both handles are closed unless a call that      *)
(* stored one left the cache its reference.                                *)
(* Either way the call returns the new identifier.                         *)
(***************************************************************************)
C29_Staged(p) == tmp[p] # 0

C29_Returned(p) == cpc[p] \in {"releaseInner", "releaseOuter", "done"}

C29_OldRemovedFirst ==
    \A p \in Callers :
        cpc[p] \in {"tryStore", "afterStore"} => (tid[p] # hid[d2[p]] /\ cache[tid[p]] # d2[p])

C29_StoredStaysLive ==
    \A p \in Callers :
        (C29_Staged(p) /\ stored[p])
            => /\ tmp[p] = d2[p] /\ cache[hid[d2[p]]] = d2[p] /\ hopen[d2[p]]
               /\ C29_Returned(p) => (d2[p] \in cacheHeld /\ refs[d2[p]] >= 1)
               /\ AllCallsDone => refs[d2[p]] = 1

C29_Settled(h) ==
    /\ refs[h] = (IF h \in cacheHeld THEN 1 ELSE 0)
    /\ hopen[h] <=> h \in cacheHeld

C29_LoserReleasedByCaller ==
    \A p \in Callers :
        (C29_Staged(p) /\ ~stored[p])
            => /\ cpc[p] = "afterStore"
                    => /\ cache[hid[d2[p]]] = tmp[p] /\ hopen[tmp[p]] /\ refs[tmp[p]] >= 1
                       /\ hopen[d2[p]] /\ refs[d2[p]] >= 2
               /\ cpc[p] = "releaseInner" => (hopen[d2[p]] /\ refs[d2[p]] >= 2)
               /\ cpc[p] = "releaseOuter" => (hopen[d1[p]] /\ refs[d1[p]] >= 1)
               /\ d2[p] \in cacheHeld => \E q \in Callers : stored[q] /\ d2[q] = d2[p]
               /\ AllCallsDone => (C29_Settled(d2[p]) /\ C29_Settled(tmp[p]))

C29_ReturnsNewId ==
    \A p \in Callers :
        (C29_Staged(p) /\ C29_Returned(p)) => (cres[p] = hid[d2[p]] /\ cres[p] # tid[p])

C29_RenameAccounting ==
    C29_OldRemovedFirst /\ C29_StoredStaysLive /\ C29_LoserReleasedByCaller /\ C29_ReturnsNewId

C29_Witness ==
    \E p \in Callers :
        /\ C29_Staged(p) /\ ~stored[p] /\ AllCallsDone
        /\ cres[p] = newID /\ ~hopen[d2[p]]

(***************************************************************************)
(* C30. An insecure device is never owned: when the handle reports that    *)
(* the device is not secured, Client.OwnDevice returns the identifier it   *)
(* was given, with success, without calling deviceOwner.OwnDevice: no step *)
(* of the ownership transfer runs and the device keeps its state and its   *)
(* identifier; the reference GetRefDevice gave is released on return.      *)
(***************************************************************************)
C30_OuterOnly == {"getRefOuter", "isSecuredOuter", "releaseOuter", "done"}

C30_HoldersOf(h) == {p \in Callers : cpc[p] \in {"isSecuredOuter", "releaseOuter"} /\ d1[p] = h}

C30_InsecureNeverOwned ==
    ~secured
        => /\ \A p \in Callers :
                /\ cpc[p] \in C30_OuterOnly
                /\ d2[p] = 0 /\ tmp[p] = 0 /\ ~stored[p]
                /\ (cpc[p] \in {"releaseOuter", "done"} /\ d1[p] # 0) => cres[p] = tid[p]
                /\ (cpc[p] = "done" /\ d1[p] = 0) => cres[p] = "err"
           /\ marked = {} /\ dstate = "RFOTM" /\ devId = deviceID /\ cacheHeld = {}
           /\ \A h \in Handles :
                /\ refs[h] = Cardinality(C30_HoldersOf(h))
                /\ hopen[h] <=> refs[h] > 0

C30_Witness ==
    /\ ~secured /\ AllCallsDone
    /\ \E p \in Callers : d1[p] # 0 /\ cres[p] = deviceID
    /\ \A h \in Handles : refs[h] = 0 /\ ~hopen[h]

\* ---------------------------------------------------------------------------
\* C33: when client.Observe fails after the close handler was registered,
\* observeResource returns an error, stores no observation and no close handler
\* of the failed observation stays registered on the connection.
C33_FailedStoresNothing ==
    \A id \in ofailed : id \notin observations

C33_FailedHandlerUnregistered ==
    /\ C33_FailedStoresNothing
    /\ \A id \in ofailed : id \notin closeHandlers

\* ---------------------------------------------------------------------------
\* C34: after stopObservations returned without error, every observation that
\* was registered when it was called has been removed from d.observations.
C34_NoneLeftAfterStopObservations ==
    ares = "nil" => \A id \in atCall : id \notin observations

\* what the code does establish: a nil return removed at most one of them
C34_AtMostOneRemoved ==
    ares = "nil" => Cardinality(atCall \ stoppedOk) >= Cardinality(atCall) - 1

(***************************************************************************)
(* handleResponse of DiscoverDevices (local/core/discoverDevices.go): one  *)
(* discovery response, the callbacks the device handler gets for it.       *)
(***************************************************************************)
MaxLinks == 2

\* what codec.Decode yields for a payload: schema.ResourceLinks, each record with
\* the endpoint the device wrote into it
ResourceLinks ==
    UNION { [1..n -> [href : {"/oic/d", "/oic/p"},
                      ep : { [scheme |-> "coap", host |-> "224.0.1.187", port |-> "5683"],
                             [scheme |-> "coap", host |-> "192.0.2.7", port |-> "5683"] }]]
            : n \in 0..MaxLinks }

\* a response: req.Code, whether codec.Decode succeeds, cc.RemoteAddr() and the
\* links of the payload
DiscoveryResponses ==
    [code : {"Content", "NotFound"}, decodes : BOOLEAN,
     peer : {"192.0.2.7:5683", "[fe80::1]:5683", "garbage"}, links : ResourceLinks]

\* net.Parse(string(schema.UDPScheme), cc.RemoteAddr())
ParseAddr(scheme, remote) ==
    CASE remote = "192.0.2.7:5683" ->
            [ok |-> TRUE, addr |-> [scheme |-> scheme, host |-> "192.0.2.7", port |-> "5683"]]
      [] remote = "[fe80::1]:5683" ->
            [ok |-> TRUE, addr |-> [scheme |-> scheme, host |-> "fe80::1", port |-> "5683"]]
      [] OTHER ->
            [ok |-> FALSE, addr |-> [scheme |-> scheme, host |-> "", port |-> ""]]

\* schema.ResourceLinks.PatchEndpoint(addr): every record's endpoint address
\* becomes the observed peer address
PatchEndpoint(ls, addr) ==
    [i \in 1..Len(ls) |-> [ls[i] EXCEPT !.ep = addr]]

\* a variant that calls Handle whatever len(links) is
handleResponseAlways(resp) ==
    IF resp.code # "Content" THEN <<[cb |-> "Error", links |-> <<>>]>>
    ELSE IF ~resp.decodes THEN <<[cb |-> "Error", links |-> <<>>]>>
    ELSE IF ~ParseAddr("coap", resp.peer).ok THEN <<[cb |-> "Error", links |-> <<>>]>>
    ELSE <<[cb |-> "Handle", links |-> PatchEndpoint(resp.links, ParseAddr("coap", resp.peer).addr)]>>

\* the function handleResponse returns, applied to one response: the calls it
\* makes on handler, in order
handleResponse(resp) ==
    IF resp.code # "Content" THEN <<[cb |-> "Error", links |-> <<>>]>>
    ELSE IF ~resp.decodes THEN <<[cb |-> "Error", links |-> <<>>]>>
    ELSE IF ~ParseAddr("coap", resp.peer).ok THEN <<[cb |-> "Error", links |-> <<>>]>>
    ELSE LET patched == PatchEndpoint(resp.links, ParseAddr("coap", resp.peer).addr)
         IN  IF Len(patched) > 0
             THEN <<[cb |-> "Handle", links |-> patched]>>
             ELSE <<>>

\* nothing has been called yet
InitAux ==
    /\ OwnIdle
    /\ DiscoverIdle
    /\ CacheIdle
    /\ ObserveIdle
    /\ AuxIdle

\* a response arrives and the callback handleResponse returned is run on it
HandleResponse ==
    \E resp \in DiscoveryResponses :
        /\ hresp' = resp
        /\ hcalls' = handleResponse(resp)
        /\ UNCHANGED <<ownAll, discVars, cacheVars, obsVars, dialVars, maintVars>>

NextH == HandleResponse

SpecH == InitAux /\ [][NextH]_vars

\* ---------------------------------------------------------------------------
\* C31: for each discovery response the device handler gets at most one
\* callback: Handle exactly when the code is Content, the payload decodes, the
\* peer address parses and the link set is non-empty, and then with every
\* record's endpoint set to the parsed peer address; exactly one Error and no
\* Handle for a non-Content code, a decoding failure or an unparsable peer
\* address; no callback at all for an empty link set.
C31_Rejected ==
    \/ hresp.code # "Content"
    \/ ~hresp.decodes
    \/ hresp.peer = "garbage"

C31_HandleCalls == SelectSeq(hcalls, LAMBDA c : c.cb = "Handle")

C31_ErrorCalls == SelectSeq(hcalls, LAMBDA c : c.cb = "Error")

C31_OneCallbackPerResponse ==
    hresp.code # "none" =>
        /\ Len(hcalls) <= 1
        /\ Len(C31_HandleCalls) = 1 <=> (~C31_Rejected /\ hresp.links # <<>>)
        /\ Len(C31_HandleCalls) = 1 =>
              /\ Len(hcalls[1].links) = Len(hresp.links)
              /\ \A i \in 1..Len(hresp.links) :
                    /\ hcalls[1].links[i].href = hresp.links[i].href
                    /\ hcalls[1].links[i].ep.host \in {"192.0.2.7", "fe80::1"}
                    /\ hresp.peer = "192.0.2.7:5683" => hcalls[1].links[i].ep.host = "192.0.2.7"
                    /\ hresp.peer = "[fe80::1]:5683" => hcalls[1].links[i].ep.host = "fe80::1"
        /\ C31_Rejected => (Len(C31_ErrorCalls) = 1 /\ Len(C31_HandleCalls) = 0)
        /\ (~C31_Rejected /\ hresp.links = <<>>) => hcalls = <<>>

\* a response from fe80::1 that advertises the multicast address was handled
C31_Witness ==
    /\ hresp.code = "Content" /\ hresp.decodes
    /\ hresp.peer = "[fe80::1]:5683"
    /\ Len(hresp.links) = 2
    /\ hresp.links[1].ep.host = "224.0.1.187"
    /\ Len(hcalls) = 1 /\ hcalls[1].cb = "Handle"
    /\ hcalls[1].links[1].ep.host = "fe80::1"

(***************************************************************************)
(* DialTcpTls (local/coapClient.go): the peer presents its certificates,   *)
(* tlsConfig.VerifyPeerCertificate checks them, DialWithTLS returns.       *)
(***************************************************************************)
MaxCerts == 2

\* a raw certificate: whether x509.ParseCertificate and cert.Verify against
\* caPool succeed, and the fields VerifyIndetityCertificate reads: eku is
\* cert.ExtKeyUsage with cert.UnknownExtKeyUsage, cn is
\* strings.Split(cert.Subject.CommonName, ":")
PresentedCerts ==
    [parses : BOOLEAN, verifies : BOOLEAN,
     eku : { {"client", "server", "ocfid"}, {"client", "server"}, {"server", "ocfid"} },
     cn : { <<"uuid", "6f1c9a3e-0000-4000-8000-000000000001">>, <<"device">> }]

CertChains == UNION { [1..n -> PresentedCerts] : n \in 0..MaxCerts }

\* VerifyIndetityCertificate(cert): "nil" or the error
VerifyIndetityCertificate(cert) ==
    IF "client" \notin cert.eku THEN "not contains ExtKeyUsageClientAuth"
    ELSE IF "server" \notin cert.eku THEN "not contains ExtKeyUsageServerAuth"
    ELSE IF "ocfid" \notin cert.eku THEN "not contains ExtKeyUsage with OCF ID"
    ELSE IF Len(cert.cn) # 2 THEN "invalid subject common name"
    ELSE IF cert.cn[1] # "uuid" THEN "invalid subject common name: 'uuid' - not found"
    ELSE IF cert.cn[2] # "6f1c9a3e-0000-4000-8000-000000000001" THEN "invalid subject common name"
    ELSE "nil"

\* tlsConfig.VerifyPeerCertificate(rawCerts, verifiedChains), with
\* VerifyIndetityCertificate as the verifyPeerCertificate argument of DialTcpTls:
\* err is what it returns, called what the callback returned on each call.  When
\* verifyPeerCertificate(cert) != nil it returns err, the variable that holds the
\* result of cert.Verify, which is nil at that point
RECURSIVE VerifyPeerCertificate(_, _)
VerifyPeerCertificate(rawCerts, called) ==
    IF rawCerts = <<>> THEN [err |-> "nil", called |-> called]
    ELSE LET cert == Head(rawCerts)
             parseErr == IF cert.parses THEN "nil" ELSE "x509: malformed certificate"
             verifyErr == IF cert.verifies THEN "nil" ELSE "x509: certificate signed by unknown authority"
         IN  IF parseErr # "nil" THEN [err |-> parseErr, called |-> called]
             ELSE IF verifyErr # "nil" THEN [err |-> verifyErr, called |-> called]
             ELSE IF VerifyIndetityCertificate(cert) # "nil"
                  THEN [err |-> verifyErr, called |-> Append(called, VerifyIndetityCertificate(cert))]
                  ELSE VerifyPeerCertificate(Tail(rawCerts), Append(called, "nil"))

\* gocoap.DialWithTLS("tcp", addr, &tlsConfig): the handshake, in which the peer
\* presents rawCerts and tlsConfig.VerifyPeerCertificate is run on them
\* (InsecureSkipVerify is true, so nothing else verifies the peer)
DialTcpTlsHandshake ==
    /\ tpc = "idle"
    /\ \E rawCerts \in CertChains :
        /\ tchain' = rawCerts
        /\ tverify' = VerifyPeerCertificate(rawCerts, <<>>).err
        /\ tcalled' = VerifyPeerCertificate(rawCerts, <<>>).called
    /\ tpc' = "dial"
    /\ UNCHANGED <<tres, ownAll, discVars, cacheVars, obsVars, respVars, maintVars>>

\* coapConn, err := gocoap.DialWithTLS(...); if err != nil { return nil, err };
\* return NewCoapClient(coapConn, schema.TCPSecureScheme), nil.  The handshake
\* fails when VerifyPeerCertificate returned an error, and can fail otherwise
DialTcpTlsReturn ==
    /\ tpc = "dial"
    /\ \E ok \in BOOLEAN :
        tres' = IF tverify = "nil" /\ ok THEN "client" ELSE "err"
    /\ tpc' = "done"
    /\ UNCHANGED <<tchain, tcalled, tverify, ownAll, discVars, cacheVars, obsVars, respVars, maintVars>>

NextT ==
    \/ DialTcpTlsHandshake
    \/ DialTcpTlsReturn

SpecT == InitAux /\ [][NextT]_vars

\* ---------------------------------------------------------------------------
\* C32: whenever verifyPeerCertificate returned an error for a presented
\* certificate, the handshake verification returns a non-nil error and
\* DialTcpTls returns no client.
C32_CallbackRejected ==
    \E i \in 1..Len(tcalled) : tcalled[i] # "nil"

C32_RejectedPeerGetsNoClient ==
    C32_CallbackRejected => (tverify # "nil" /\ tres # "client")

\* what the code does establish: a certificate that does not parse or does not
\* chain to caPool, met before any rejection by the callback, fails the dial
C32_UnverifiedPeerGetsNoClient ==
    (tpc # "idle" /\ ~C32_CallbackRejected /\ \E i \in 1..Len(tchain) : ~tchain[i].parses \/ ~tchain[i].verifies)
        => (tverify # "nil" /\ tres # "client")

(***************************************************************************)
(* Reboot, FactoryReset and updateMaintenanceResource                      *)
(* (backend/maintenance.go).                                               *)
(***************************************************************************)
MaxMaintLinks == 2

\* http.StatusBadRequest
StatusBadRequest == 400

\* resp.LastHTTPError of a maintenance resource
LastHTTPErrors == {0, 200, 399, 400, 404, 599}

\* what the iterator of GetResourceLinksIterator can yield: the hrefs of the
\* device's resources of type maintenance.MaintenanceResourceType
MaintenanceLinks == UNION { [1..n -> {"/oic/mnt", "/mnt2"}] : n \in 0..MaxMaintLinks }

\* Reboot(ctx, deviceID) / FactoryReset(ctx, deviceID): updateMaintenanceResource with
\* the request; it := c.GetResourceLinksIterator(ctx, []string{deviceID}, MaintenanceResourceType)
MaintCall(req) ==
    /\ mpc = "idle"
    /\ mreq' = req
    /\ mlinks' \in MaintenanceLinks
    /\ mitErr' \in BOOLEAN
    /\ mpc' = "next"
    /\ UNCHANGED <<msent, mresp, mres, ownAll, discVars, cacheVars, obsVars, respVars, dialVars>>

\* if !it.Next(&v) { break } ... return it.Err
MaintNext ==
    /\ mpc = "next"
    /\ IF mlinks = <<>>
       THEN /\ mres' = IF mitErr THEN "err" ELSE "nil"
            /\ mpc' = "done"
       ELSE /\ mpc' = "update"
            /\ UNCHANGED mres
    /\ UNCHANGED <<mreq, mlinks, mitErr, msent, mresp, ownAll, discVars, cacheVars, obsVars,
                   respVars, dialVars>>

\* err := c.UpdateResource(ctx, v.GetDeviceId(), v.GetHref(), req, &resp); if err != nil
\* { return err }; if resp.LastHTTPError >= http.StatusBadRequest { return
\* fmt.Errorf(http.StatusText(...)) }; return it.Err, which is nil after a Next
\* that returned true.  fmt.Errorf gives a non-nil error for every text
MaintUpdate ==
    /\ mpc = "update"
    /\ msent' = Append(msent, Head(mlinks))
    /\ mlinks' = Tail(mlinks)
    /\ \E ok \in BOOLEAN, last \in LastHTTPErrors :
        IF ~ok
        THEN /\ mres' = "err"
             /\ UNCHANGED mresp
        ELSE /\ mresp' = last
             /\ mres' = IF last >= StatusBadRequest THEN "err" ELSE "nil"
    /\ mpc' = "done"
    /\ UNCHANGED <<mreq, mitErr, ownAll, discVars, cacheVars, obsVars, respVars, dialVars>>

NextM ==
    \/ \E req \in {"Reboot", "FactoryReset"} : MaintCall(req)
    \/ MaintNext
    \/ MaintUpdate

SpecM == InitAux /\ [][NextM]_vars

\* ---------------------------------------------------------------------------
\* C35: Reboot and FactoryReset return success only if a maintenance update
\* was sent to a maintenance resource of the device and the response's last
\* HTTP error is below 400; at most one update is sent per call, and a failed
\* update or a last HTTP error of 400 or more gives an error.
C35_SuccessMeansUpdated ==
    /\ mres = "nil" => (Len(msent) = 1 /\ mresp >= 0 /\ mresp < StatusBadRequest)
    /\ Len(msent) <= 1
    /\ (mpc = "done" /\ Len(msent) = 1 /\ (mresp < 0 \/ mresp >= StatusBadRequest)) => mres = "err"

\* what the code does establish: the parts about the update that was sent
C35_UpdateOutcomeReported ==
    /\ Len(msent) <= 1
    /\ (mres = "nil" /\ Len(msent) = 1) => (mresp >= 0 /\ mresp < StatusBadRequest)
    /\ (mpc = "done" /\ Len(msent) = 1 /\ (mresp < 0 \/ mresp >= StatusBadRequest)) => mres = "err"
    /\ (mres = "nil" /\ Len(msent) = 0) => (mlinks = <<>> /\ ~mitErr)

====
